---- MODULE Spec2Model ----
(***************************************************************************)
(* Model of the DCF valuation engine of src/dcf_code.py (class DCFModel).  *)
(* Spec is one engine and its client, FleetSpec two engines in one process *)
(* and LoaderSpec the data loader of src/dcf_loader.py.  RateSpec is the   *)
(* two rate limiters of the web layer (src/ticker_search.py, src/app.py),  *)
(* SearchSpec the cached ticker search of src/ticker_search.py and WebSpec *)
(* concurrent /calculate requests of src/dcf_webapp/app.py.                *)
(*                                                                         *)
(* Numbers.  The engine computes in binary floating point.  The model      *)
(* computes in decimal fixed point with three decimals: the integer n      *)
(* stands for n / Scale, every product and quotient is rounded to the      *)
(* nearest representable value, as a float operation is.  All literals of  *)
(* the code (0.10, 0.05, 0.21, 0.005, 0.01, 0.02) are representable.       *)
(* A value computed with numpy (margins, forecast rows, prices) is either  *)
(* finite, <<n>>, or non-finite, <<>>: numpy's inf, -inf and nan, which it *)
(* produces instead of raising when a divisor is zero.  Non-finite values  *)
(* are absorbing under every operation the engine applies to them, so one  *)
(* value stands for the three.  Values that the code computes with plain   *)
(* Python floats from the snapshot (the WACC and its parts) are integers.  *)
(***************************************************************************)
EXTENDS Integers, Sequences, FiniteSets, TLC

\* ---------------------------------------------------------------- bounds
\* number of engine calls a client makes in one behaviour
MaxOps == 2
\* number of engine calls made on two engines together in one behaviour
MaxFleetOps == 3
\* the clock of the rate limiters runs from 0 to MaxClock seconds
MaxClock == 60
\* number of requests the second client of a rate limiter makes
MaxOtherCalls == 1
\* the clock of the ticker search runs from 0 to MaxHours hours
MaxHours == 36
\* number of lines the model run of one /calculate request prints
MaxLines == 2

\* ------------------------------------------------------- fixed-point layer
\* 1.0 in fixed point
Scale == 10 ^ 3

\* the element of a one-element set.  The({ e(v) : v \in {x} }) is e applied
\* to the value of x: x is evaluated once, before e, the way a statement of
\* the program evaluates its operand before it goes on.
The(S) == CHOOSE x \in S : TRUE

Abs(n) == IF n < 0 THEN -n ELSE n

\* n / d rounded to the nearest integer, halves away from zero (d # 0)
RoundDiv(n, d) ==
    The({ IF (p[1] < 0) = (p[2] < 0)
          THEN (Abs(p[1]) + (Abs(p[2]) \div 2)) \div Abs(p[2])
          ELSE -((Abs(p[1]) + (Abs(p[2]) \div 2)) \div Abs(p[2])) : p \in {<<n, d>>} })

\* a * b and a / b on finite fixed-point values (b # 0 for RDiv)
RMul(a, b) == RoundDiv(a * b, Scale)
RDiv(a, b) == RoundDiv(a * Scale, b)

\* base ** k for an integer k >= 0
RECURSIVE RPow(_, _)
RPow(base, k) == IF k = 0 THEN Scale ELSE RMul(RPow(base, k - 1), base)

\* numpy values: <<n>> finite, <<>> non-finite (inf, -inf, nan)
NonFinite == <<>>
Fin(n) == <<n>>
IsFinite(x) == x # NonFinite
Zero == Fin(0)

\* x + y, x - y, x * y: non-finite as soon as an operand is (p is x \o y, of
\* length 2 when both are finite)
FAdd(x, y) == The({ IF Len(p) = 2 THEN Fin(p[1] + p[2]) ELSE NonFinite : p \in {x \o y} })
FSub(x, y) == The({ IF Len(p) = 2 THEN Fin(p[1] - p[2]) ELSE NonFinite : p \in {x \o y} })
FMul(x, y) == The({ IF Len(p) = 2 THEN Fin(RMul(p[1], p[2])) ELSE NonFinite : p \in {x \o y} })
\* numpy division: a zero divisor yields inf or nan and a warning, never
\* ZeroDivisionError
FDiv(x, y) ==
    The({ IF Len(p) = 2 /\ p[2] # 0 THEN Fin(RDiv(p[1], p[2])) ELSE NonFinite : p \in {x \o y} })

\* round(x, 2): to the nearest hundredth, halves to even
Round2(x) ==
    The({ IF ~IsFinite(v) THEN NonFinite
          ELSE LET lo == (v[1] \div 10) * 10          \* floor to a hundredth
                   r == v[1] - lo
               IN  Fin(IF r < 5 THEN lo
                       ELSE IF r > 5 THEN lo + 10
                       ELSE IF (lo \div 10) % 2 = 0 THEN lo ELSE lo + 10) : v \in {x} })

Last(s) == The({ v[Len(v)] : v \in {s} })

\* ------------------------------------------------------------- data model
\* FinancialData snapshots.  Series are ordered oldest to newest and hold
\* fixed-point amounts (1000 = 1.0 unit of money or 100%).  Only the fields
\* the engine reads are kept.
BaseData ==
    [ years                |-> <<"2021", "2022", "2023">>,
      revenue              |-> <<8000, 9000, 10000>>,
      ebit                 |-> <<1600, 1800, 2000>>,
      effective_tax_rate   |-> <<210, 210, 210>>,
      interest_expense     |-> <<0, 0, 0>>,
      current_assets       |-> <<2000, 2200, 2500>>,
      current_liabilities  |-> <<1500, 1600, 1800>>,
      cash_and_equivalents |-> <<500, 500, 500>>,
      short_term_debt      |-> <<200, 200, 200>>,
      total_debt           |-> <<0, 0, 0>>,
      preferred_equity     |-> <<0, 0, 0>>,
      d_and_a              |-> <<400, 450, 500>>,
      capex                |-> <<-480, -540, -600>>,
      preferred_dividends  |-> <<>>,
      shares_outstanding   |-> 2000,
      beta                 |-> 1000,
      market_cap           |-> 50000,
      risk_free_rate       |-> 40,
      market_return_rate   |-> 100 ]

\* operating histories: a regular one, one with losses, one with a year of
\* missing (0.0) revenue
OperatingChoices ==
    { [revenue |-> <<8000, 9000, 10000>>, ebit |-> <<1600, 1800, 2000>>],
      [revenue |-> <<8000, 9000, 10000>>, ebit |-> <<-1600, -1800, -2000>>],
      [revenue |-> <<8000, 0, 10000>>,    ebit |-> <<1600, 0, 2000>>] }

\* capital structures: equity only; equity, debt and preferred, in round
\* proportions (70/20/10) and in proportions that no weight represents
\* exactly (50/10/2); nothing
\* known (all zero); debt offset by negative preferred equity; series left
\* empty by the caller
CapitalChoices ==
    { [market_cap |-> 50000, total_debt |-> <<0, 0, 0>>, interest_expense |-> <<0, 0, 0>>,
       preferred_equity |-> <<0, 0, 0>>, preferred_dividends |-> <<>>,
       effective_tax_rate |-> <<210, 210, 210>>],
      [market_cap |-> 35000, total_debt |-> <<9000, 9500, 10000>>,
       interest_expense |-> <<-450, -475, -500>>,
       preferred_equity |-> <<5000, 5000, 5000>>, preferred_dividends |-> <<-300, -300, -300>>,
       effective_tax_rate |-> <<200, 200, 200>>],
      [market_cap |-> 50000, total_debt |-> <<9000, 9500, 10000>>,
       interest_expense |-> <<-450, -475, -500>>,
       preferred_equity |-> <<2000, 2000, 2000>>, preferred_dividends |-> <<-100, -100, -100>>,
       effective_tax_rate |-> <<210, 210, 210>>],
      [market_cap |-> 0, total_debt |-> <<0, 0, 0>>, interest_expense |-> <<0, 0, 0>>,
       preferred_equity |-> <<0, 0, 0>>, preferred_dividends |-> <<>>,
       effective_tax_rate |-> <<210, 210, 210>>],
      [market_cap |-> 0, total_debt |-> <<5000, 5000, 5000>>,
       interest_expense |-> <<-250, -250, -250>>,
       preferred_equity |-> <<-5000, -5000, -5000>>, preferred_dividends |-> <<>>,
       effective_tax_rate |-> <<210, 210, 210>>],
      [market_cap |-> 50000, total_debt |-> <<>>, interest_expense |-> <<>>,
       preferred_equity |-> <<>>, preferred_dividends |-> <<>>,
       effective_tax_rate |-> <<>>] }

SharesChoices == {2000, 0, -2000}

Snapshots ==
    { [BaseData EXCEPT !.revenue = o.revenue, !.ebit = o.ebit,
                       !.market_cap = c.market_cap, !.total_debt = c.total_debt,
                       !.interest_expense = c.interest_expense,
                       !.preferred_equity = c.preferred_equity,
                       !.preferred_dividends = c.preferred_dividends,
                       !.effective_tax_rate = c.effective_tax_rate,
                       !.shares_outstanding = s] :
        o \in OperatingChoices, c \in CapitalChoices, s \in SharesChoices }

\* DCFAssumptions: growth rates per forecast year and the terminal growth
GrowthChoices == { <<50, 50, 50, 50, 50>>, <<100, 50>>, <<>> }
TerminalChoices == {20, 90, 100}

AssumptionSets ==
    { [revenue_growth_rates |-> gr, terminal_growth_rate |-> tg, projection_years |-> 5] :
        gr \in GrowthChoices, tg \in TerminalChoices }

\* arguments a client passes to compute_intrinsic_value directly
WaccArgs == {50, 100}
GrowthArgs == {20, 40, 100}

\* FinancialData.nwc: (CA - cash) - (CL - short-term debt) per year
nwc(d) ==
    [ i \in 1..Len(d.current_assets) |->
        (d.current_assets[i] - d.cash_and_equivalents[i])
        - (d.current_liabilities[i] - d.short_term_debt[i]) ]

\* ------------------------------------------------------------------ state
VARIABLES
    data,             \* the FinancialData the engine was constructed with
    assumptions,      \* the DCFAssumptions it was constructed with
    wacc,             \* self.wacc
    projections,      \* self.projections
    calculation_log,  \* self.calculation_log
    stdout,           \* what print() has written to sys.stdout
    calls,            \* how often each method body has run
    ret,              \* the last call a client made and what it returned
    fleet,            \* two engines in one process (see the fleet section)
    loader,           \* a run of the data loader (see the loader section)
    rate,             \* the rate limiters of the web app (see the rate section)
    search,           \* the ticker search and its cache (see the search section)
    web               \* concurrent /calculate requests (see the web section)

vars ==
    <<data, assumptions, wacc, projections, calculation_log, stdout, calls, ret, fleet, loader,
      rate, search, web>>

\* the engine as the methods see it
Self ==
    [ data |-> data, assumptions |-> assumptions, wacc |-> wacc,
      projections |-> projections, calculation_log |-> calculation_log,
      stdout |-> stdout, calls |-> calls ]

\* DCFModel._log: print the message and append it to the trace
log_silent(self, message) == [self EXCEPT !.calculation_log = Append(@, message)]
log(self, message) ==
    [self EXCEPT !.stdout = Append(@, message),
                 !.calculation_log = Append(@, message)]

\* a run of _log calls, one per message
logAll_front(self, messages) ==
    [self EXCEPT !.stdout = @ \o messages,
                 !.calculation_log = messages \o @]
logAll(self, messages) ==
    [self EXCEPT !.stdout = @ \o messages,
                 !.calculation_log = @ \o messages]

\* print() alone
print(self, message) == [self EXCEPT !.stdout = Append(@, message)]

\* DCFModel._print_header: three _log calls
print_header(self, title) == logAll(self, <<"====", title, "====">>)

Count(self, method) == [self EXCEPT !.calls[method] = @ + 1]

\* ------------------------------------------------------- program constants
DefaultCostOfDebt == 50       \* 0.05
DefaultTaxRate == 210         \* 0.21
FallbackWacc_debt == DefaultCostOfDebt
FallbackWacc == 100           \* 0.10
TerminalExponent == 5         \* the literal in (1 + wacc) ** 5
WaccOffsets_wide == <<-10, -5, 0, 5, 15>>
WaccOffsets == <<-10, -5, 0, 5, 10>>      \* -0.01 .. +0.01
GrowthOffsets == <<-20, -10, 0, 10, 20>>  \* -0.02 .. +0.02

\* ------------------------------------------------------- margin estimator
Min(a, b) == IF a <= b THEN a ELSE b

\* s[-n:] (Python: s[-0:] is all of s)
LastN(s, n) == IF n = 0 \/ n >= Len(s) THEN s ELSE SubSeq(s, Len(s) - n + 1, Len(s))

\* numpy element-wise a / b on two arrays of equal length
ArrayDiv(a, b) == [ i \in 1..Len(a) |-> FDiv(Fin(a[i]), Fin(b[i])) ]

RECURSIVE FSum(_)
FSum(arr) == IF arr = <<>> THEN Zero ELSE FAdd(Head(arr), FSum(Tail(arr)))

\* np.mean: nan for an empty array
Mean(arr) == IF arr = <<>> THEN NonFinite ELSE FDiv(FSum(arr), Fin(Len(arr) * Scale))

HistoricalInputLog ==
    << "Years Used", "Historical Revenue", "Historical EBIT", "Historical D&A",
       "Historical CapEx", "Historical NWC" >>

MarginLog ==
    << "--- Calculated Margins (Last 3 Years) ---",
       "EBIT Margins", "Avg EBIT Margin", "D&A Margins", "Avg D&A Margin",
       "NWC Margins", "Avg NWC Margin", "CapEx Margins", "Avg CapEx Margin" >>

\* DCFModel._calculate_historical_margins.  The divisions are numpy array
\* divisions: a zero revenue makes the ratio inf or nan, ZeroDivisionError is
\* never raised and the except branch never runs.
calculate_historical_margins(self) ==
    LET d == self.data
        rec_count == Min(Len(d.revenue), 3)
        rev == LastN(d.revenue, rec_count)
        ebit == LastN(d.ebit, rec_count)
        da == LastN(d.d_and_a, rec_count)
        nwcs == LastN(nwc(d), rec_count)
        capex == LastN(d.capex, rec_count)
        s1 == print_header(Count(self, "margins"), "PHASE 1: HISTORICAL DRIVERS (BASELINE)")
        s2 == logAll(s1, HistoricalInputLog)
        ebit_margins == ArrayDiv(ebit, rev)
        da_margins == ArrayDiv(da, rev)
        nwc_margins == ArrayDiv(nwcs, rev)
        capex_margins == ArrayDiv([i \in 1..Len(capex) |-> Abs(capex[i])], rev)
        s3 == logAll(s2, MarginLog)
    IN  [ self |-> s3,
          ret |-> [ ebit_m |-> Mean(ebit_margins), da_m |-> Mean(da_margins),
                    nwc_m |-> Mean(nwc_margins), capex_m |-> Mean(capex_margins),
                    last_nwc |-> Fin(Last(nwcs)) ] ]

\* -------------------------------------------------------------------- WACC
CostOfEquityLog ==
    << "1. Cost of Equity (CAPM)", "Risk Fee Rate", "Beta", "Market Return", "-> Cost Equity" >>
CostOfDebtLog ==
    << "2. Cost of Debt", "Interest Exp", "Total Debt", "Pre-Tax Cost", "Tax Rate", "-> After-Tax" >>
WeightingLog == << "3. Weighting", "Market Cap", "Total Debt", "Pref Equity" >>

\* the latest value of a series, or the fallback when the series is empty
LatestOr_oldest(series, fallback) ==
    The({ IF v # <<>> THEN v[1] ELSE fallback : v \in {series} })
LatestOr(series, fallback) ==
    The({ IF v # <<>> THEN v[Len(v)] ELSE fallback : v \in {series} })

\* the guard of the cost-of-debt division: total_debt > 0
HasDebt_any(total_debt) == total_debt >= 0
HasDebt(total_debt) == total_debt > 0

\* Python's / on numbers raises ZeroDivisionError on a zero divisor: one of
\* the divisions <<dividend, divisor>> raises
Raises(divisions) == \E i \in DOMAIN divisions : divisions[i][2] = 0

\* total_value = market_cap + total_debt + pref_equity
TotalCapital_common(market_cap, total_debt, pref_equity) == market_cap + total_debt
TotalCapital(market_cap, total_debt, pref_equity) == market_cap + total_debt + pref_equity

\* DCFModel.calculate_wacc.  ret is the returned rate; divisions lists the
\* divisions the call evaluated, in order, as <<dividend, divisor>>; weights
\* is <<w_equity, w_debt, w_pref>> once the call has computed them.  A call
\* in which a division raises ends there and returns nothing: divisions then
\* ends with a zero divisor and ret is left 0.
calculate_wacc(self) ==
    LET d == self.data
        s1 == print_header(Count(self, "wacc"), "CALCULATING WACC")
        rf == d.risk_free_rate
        beta == d.beta
        rm == d.market_return_rate
        cost_equity == rf + RMul(beta, rm - rf)
        s2 == logAll(s1, CostOfEquityLog)
        total_debt == LatestOr(d.total_debt, 0)
        int_exp == Abs(LatestOr(d.interest_expense, 0))
        cost_of_debt == IF HasDebt(total_debt) THEN RDiv(int_exp, total_debt)
                        ELSE DefaultCostOfDebt
        div1 == IF HasDebt(total_debt) THEN << <<int_exp, total_debt>> >> ELSE <<>>
        tax_rate == LatestOr(d.effective_tax_rate, DefaultTaxRate)
        cost_debt_at == RMul(cost_of_debt, Scale - tax_rate)
        s3 == logAll(s2, CostOfDebtLog)
        market_cap == d.market_cap
        pref_equity == LatestOr(d.preferred_equity, 0)
        total_value == TotalCapital(market_cap, total_debt, pref_equity)
        w_equity == RDiv(market_cap, total_value)
        w_debt == RDiv(total_debt, total_value)
        w_pref == RDiv(pref_equity, total_value)
        div2 == << <<market_cap, total_value>>, <<total_debt, total_value>>,
                   <<pref_equity, total_value>> >>
        pref_divs == LatestOr(d.preferred_dividends, 0)
        cost_pref == IF pref_equity > 0 THEN RDiv(Abs(pref_divs), pref_equity) ELSE 0
        div3 == IF pref_equity > 0 THEN << <<Abs(pref_divs), pref_equity>> >> ELSE <<>>
        s4 == logAll(s3, WeightingLog)
        w == RMul(w_equity, cost_equity) + RMul(w_debt, cost_debt_at) + RMul(w_pref, cost_pref)
        s5 == log([s4 EXCEPT !.wacc = w], "-> FINAL WACC")
    IN  IF Raises(div1)
        THEN [ self |-> s2, ret |-> 0, divisions |-> div1, weights |-> <<>> ]
        ELSE IF total_value = 0
        THEN [ self |-> s3, ret |-> FallbackWacc, divisions |-> div1, weights |-> <<>> ]
        ELSE IF Raises(div2 \o div3)
        THEN [ self |-> s3, ret |-> 0, divisions |-> div1 \o div2 \o div3, weights |-> <<>> ]
        ELSE [ self |-> s5, ret |-> w, divisions |-> div1 \o div2 \o div3,
               weights |-> <<w_equity, w_debt, w_pref>> ]

\* ---------------------------------------------------------------- forecast
ForecastHeaderLog ==
    << "Base Revenue",
       "Year | Revenue | EBIT | Taxes | NOPAT | D&A | CapEx | Chg NWC | UFCF",
       "--------" >>

\* the loop of forecast_cash_flows from year i on; curr_rev and prev_nwc are
\* the values carried into year i
RECURSIVE ForecastRows(_, _, _, _, _, _)
ForecastRows(rates, i, curr_rev0, prev_nwc, m, tax_rate) ==
    IF i > Len(rates) THEN <<>>
    ELSE LET curr_rev == RMul(curr_rev0, Scale + rates[i])
             ebit == FMul(Fin(curr_rev), m.ebit_m)
             taxes == FMul(ebit, Fin(tax_rate))
             nopat == FSub(ebit, taxes)
             da == FMul(Fin(curr_rev), m.da_m)
             capex == FMul(Fin(curr_rev), m.capex_m)
             nwc_level == FMul(Fin(curr_rev), m.nwc_m)
             change_nwc == FSub(nwc_level, prev_nwc)
             ufcf == FSub(FSub(FAdd(nopat, da), capex), change_nwc)
             row == [ Year |-> i, Revenue |-> Fin(curr_rev), EBIT |-> ebit, Taxes |-> taxes,
                      DA |-> da, CapEx |-> capex, NWC |-> nwc_level,
                      ChangeNWC |-> change_nwc, UFCF |-> ufcf ]
         IN  <<row>> \o ForecastRows(rates, i + 1, curr_rev, nwc_level, m, tax_rate)

\* the forecast has a year and every UFCF is a number, of either sign
FiniteFlows(rows) ==
    /\ rows # <<>>
    /\ \A i \in DOMAIN rows : IsFinite(rows[i].UFCF)

\* the base revenue (year 0) of the forecast: the latest historical revenue
BaseRevenue_carried(self) ==
    IF self.projections # <<>> THEN Last(self.projections).Revenue[1]
    ELSE Last(self.data.revenue)
BaseRevenue_oldest(self) == self.data.revenue[1]
BaseRevenue(self) == Last(self.data.revenue)

\* self.projections = projections
StoreProjections_inplace(self, rows) ==
    [self EXCEPT !.projections = rows,
                 !.data.revenue = IF FiniteFlows(rows)
                                  THEN [@ EXCEPT ![Len(@)] = Last(rows).Revenue[1]] ELSE @]
StoreProjections(self, rows) == [self EXCEPT !.projections = rows]

\* DCFModel.forecast_cash_flows (mr is what the margin estimator returned)
forecast_cash_flows(self) ==
    The({ LET d == self.data
              s1 == print_header(mr.self, "PHASE 2 & 3: PROJECTIONS & UFCF")
              s2 == logAll(s1, ForecastHeaderLog)
              tax_rate == LatestOr(d.effective_tax_rate, DefaultTaxRate)
              rows == ForecastRows(self.assumptions.revenue_growth_rates, 1, BaseRevenue(self),
                                   mr.ret.last_nwc, mr.ret, tax_rate)
          IN  The({ [ self |-> StoreProjections(
                                  logAll(s2, [ i \in 1..Len(projections_) |-> "forecast row" ]),
                                  projections_),
                      ret |-> projections_ ] : projections_ \in {rows} })
          : mr \in { calculate_historical_margins(Count(self, "forecast")) } })

\* -------------------------------------------------------- valuation bridge
UFCFs(rows) == [ i \in 1..Len(rows) |-> rows[i].UFCF ]

\* the discounting loop: sum of flow / (1 + wacc) ** i over the flows from
\* index i on
RECURSIVE PvSum(_, _, _)
PvSum(ufcfs, w, i) ==
    IF i > Len(ufcfs) THEN Zero
    ELSE FAdd(FDiv(ufcfs[i], Fin(RPow(Scale + w, i))), PvSum(ufcfs, w, i + 1))

\* latest total debt less latest cash
NetDebt_gross(d) == LatestOr(d.total_debt, 0)
NetDebt(d) == LatestOr(d.total_debt, 0) - LatestOr(d.cash_and_equivalents, 0)

\* the test for an invalid scenario: wacc <= terminal_growth_rate
InvalidScenario_strict(w, g) == w < g
InvalidScenario(w, g) == w <= g

\* the test that guards the division by the share count: shares <= 0
NoShares_zero(shares) == shares = 0
NoShares(shares) == shares <= 0

\* the Gordon growth terminal value of compute_intrinsic_value:
\* (final_ufcf * (1 + g)) / (wacc - g)
TerminalValue_negated(final_ufcf, w, g) == FDiv(FMul(final_ufcf, Fin(Scale + g)), Fin(g - w))
TerminalValue_summed(final_ufcf, w, g) == FDiv(FMul(final_ufcf, Fin(Scale + g)), Fin(w + g))
TerminalValue(final_ufcf, w, g) == FDiv(FMul(final_ufcf, Fin(Scale + g)), Fin(w - g))

\* the test for a missing forecast: not self.projections
NeedsForecast_always(self) == Len(self.projections) >= 0
NeedsForecast(self) == self.projections = <<>>

\* DCFModel.compute_intrinsic_value(wacc, terminal_growth_rate); s1 is the
\* engine after the forecast it may have had to run
compute_intrinsic_value(self, w, g) ==
    The({ LET ufcfs == UFCFs(s1.projections)
              pv_ufcf_sum == PvSum(ufcfs, w, 1)
              final_ufcf == Last(ufcfs)
              tv == TerminalValue(final_ufcf, w, g)
              pv_tv == FDiv(tv, Fin(RPow(Scale + w, TerminalExponent)))
              current_ev == FAdd(pv_ufcf_sum, pv_tv)
              ev_12m == FSub(FMul(current_ev, Fin(Scale + w)), ufcfs[1])
              equity_val == FSub(ev_12m, Fin(NetDebt(s1.data)))
              shares == s1.data.shares_outstanding
          IN  [ self |-> s1,
                ret |-> IF ufcfs = <<>> THEN Zero
                        ELSE IF InvalidScenario(w, g) THEN Zero
                        ELSE IF NoShares(shares) THEN Zero
                        ELSE FDiv(equity_val, Fin(shares)) ]
          : s1 \in { IF NeedsForecast(self)
                     THEN forecast_cash_flows(Count(self, "bridge")).self
                     ELSE Count(self, "bridge") } })

DiscountHeaderLog == << "Year | UFCF | Discount Fac | PV", "--------" >>
TerminalValueLog ==
    << "Terminal Value Calculation (Gordon Growth):", "Final UFCF", "Growth (g)", "WACC", "-> TV" >>
BridgeLog ==
    << "1. Current Enterprise Value", "2. Plus: Growth (1 Year @ WACC)",
       "3. Less: Year 1 Cash Flow Paid", "-> 12-MONTH ENTERPRISE VALUE",
       "Net Debt Calculation:", "Total Debt", "Less Cash", "= Net Debt",
       "-> EQUIT VALUE (12m)", "Shares Outstanding" >>

\* the rest of calculate_intrinsic_value once the WACC w is computed and the
\* forecast has run, leaving the engine s
valuation_bridge(s, w) ==
    LET ufcfs == UFCFs(s.projections)
        s2 == logAll(print_header(s, "PHASE 4: DCF VALUATION"), DiscountHeaderLog)
        s3 == logAll(s2, [ i \in 1..Len(ufcfs) |-> "discount row" ] \o <<"--------", "Stage 1 PV Sum">>)
        pv_ufcf_sum == PvSum(ufcfs, w, 1)
        final_ufcf == Last(ufcfs)
        g == s.assumptions.terminal_growth_rate
        tv == IF w > g THEN FDiv(FMul(final_ufcf, Fin(Scale + g)), Fin(w - g)) ELSE Zero
        s4 == IF w > g THEN logAll(s3, TerminalValueLog)
                       ELSE log(s3, "Error: WACC <= Terminal Growth")
        pv_tv == FDiv(tv, Fin(RPow(Scale + w, TerminalExponent)))
        s5 == logAll(s4, <<"Discounting TV 5 years back...", "PV of TV", "-> CURRENT ENTERPRISE VALUE">>)
        current_ev == FAdd(pv_ufcf_sum, pv_tv)
        s6 == print_header(s5, "PHASE 5: 12-MONTH TARGET PRICE BRIDGE")
        ev_12m == FSub(FMul(current_ev, Fin(Scale + w)), ufcfs[1])
        equity_value_12m == FSub(ev_12m, Fin(NetDebt(s.data)))
        s7 == logAll(s6, BridgeLog)
        shares == s.data.shares_outstanding
        target_price == FDiv(equity_value_12m, Fin(shares))
        s8 == print_header(s7, "FINAL TARGET PRICE")
    IN  IF ufcfs = <<>> THEN [ self |-> s, ret |-> Zero, wacc |-> w ]
        ELSE IF NoShares(shares) THEN [ self |-> s7, ret |-> Zero, wacc |-> w ]
        ELSE [ self |-> s8, ret |-> Round2(target_price), wacc |-> w ]

\* DCFModel.calculate_intrinsic_value.  ret is the returned price, wacc the
\* rate the call computed for it: wr is what calculate_wacc returned, fr what
\* forecast_cash_flows returned.  (With 1 + wacc = 0 and wacc <= g Python
\* would raise on 0.0 / 0.0; no snapshot of the model has a WACC of -100%.)
\* An exception of calculate_wacc propagates: the call ends without a price.
calculate_intrinsic_value(self) ==
    The({ IF Raises(wr.divisions)
          THEN [ self |-> wr.self, ret |-> NonFinite, wacc |-> wr.ret ]
          ELSE The({ valuation_bridge(fr.self, wr.ret)
                     : fr \in { forecast_cash_flows(wr.self) } })
          : wr \in { calculate_wacc(log(print(log(Count(self, "valuation"), "####"),
                                              " STARTING VALUATION"), "####")) } })

\* ------------------------------------------------------------- sensitivity
\* the inner loop of generate_sensitivity_table: one row, columns j..5; c is
\* what compute_intrinsic_value returned for column j
RECURSIVE SensitivityRow_storing(_, _, _, _)
SensitivityRow_storing(self, w, g_steps, j) ==
    IF j > Len(g_steps) THEN [ self |-> self, row |-> <<>> ]
    ELSE The({ The({ [ self |-> rest.self, row |-> <<c.ret>> \o rest.row ]
                     : rest \in { SensitivityRow_storing(c.self, w, g_steps, j + 1) } })
               : c \in { compute_intrinsic_value([self EXCEPT !.wacc = w], w, g_steps[j]) } })

RECURSIVE SensitivityRow(_, _, _, _)
SensitivityRow(self, w, g_steps, j) ==
    IF j > Len(g_steps) THEN [ self |-> self, row |-> <<>> ]
    ELSE The({ The({ [ self |-> rest.self, row |-> <<c.ret>> \o rest.row ]
                     : rest \in { SensitivityRow(c.self, w, g_steps, j + 1) } })
               : c \in { compute_intrinsic_value(self, w, g_steps[j]) } })

\* the outer loop: rows i..5; r is the engine and the prices after row i
RECURSIVE SensitivityMatrix(_, _, _, _)
SensitivityMatrix(self, wacc_steps, g_steps, i) ==
    IF i > Len(wacc_steps) THEN [ self |-> self, matrix |-> <<>> ]
    ELSE The({ The({ [ self |-> rest.self,
                       matrix |-> << <<wacc_steps[i], r.row>> >> \o rest.matrix ]
                     : rest \in { SensitivityMatrix(r.self, wacc_steps, g_steps, i + 1) } })
               : r \in { SensitivityRow(self, wacc_steps[i], g_steps, 1) } })

\* DCFModel.generate_sensitivity_table: returns (g_steps, matrix)
generate_sensitivity_table(self) ==
    LET base_wacc == self.wacc
        base_g == self.assumptions.terminal_growth_rate
        wacc_steps == [ i \in 1..Len(WaccOffsets) |-> base_wacc + WaccOffsets[i] ]
        g_steps == [ j \in 1..Len(GrowthOffsets) |-> base_g + GrowthOffsets[j] ]
    IN  The({ [ self |-> m.self, ret |-> [ g_steps |-> g_steps, matrix |-> m.matrix ] ]
              : m \in { SensitivityMatrix(Count(self, "sensitivity"), wacc_steps, g_steps, 1) } })

\* ----------------------------------------------------------------- actions
NoCalls ==
    [ client |-> 0, margins |-> 0, wacc |-> 0, forecast |-> 0, bridge |-> 0,
      valuation |-> 0, sensitivity |-> 0 ]

\* DCFModel.__init__ on a snapshot and assumptions of the caller
Init ==
    /\ data \in Snapshots
    /\ assumptions \in AssumptionSets
    /\ wacc = 0
    /\ projections = <<>>
    /\ calculation_log = <<>>
    /\ stdout = <<>>
    /\ calls = NoCalls
    /\ ret = [ op |-> "__init__", args |-> <<>>, val |-> <<>>, wacc |-> 0, divisions |-> <<>>,
               weights |-> <<>> ]
    /\ fleet = <<>>
    /\ loader = <<>>
    /\ rate = <<>>
    /\ search = <<>>
    /\ web = <<>>

\* the engine after a method has run, and what the call returned
Becomes(self, r) ==
    /\ UNCHANGED <<fleet, loader, rate, search, web>>
    /\ data' = self.data
    /\ assumptions' = self.assumptions
    /\ wacc' = self.wacc
    /\ projections' = self.projections
    /\ calculation_log' = self.calculation_log
    /\ stdout' = self.stdout
    /\ calls' = [self.calls EXCEPT !.client = @ + 1]
    /\ ret' = r

CalculateWacc ==
    /\ calls.client < MaxOps
    /\ \E r \in { calculate_wacc(Self) } :
           Becomes(r.self, [ op |-> "calculate_wacc", args |-> <<>>, val |-> r.ret,
                             wacc |-> r.ret, divisions |-> r.divisions,
                             weights |-> r.weights ])

ForecastCashFlows ==
    /\ calls.client < MaxOps
    /\ \E r \in { forecast_cash_flows(Self) } :
           Becomes(r.self, [ op |-> "forecast_cash_flows", args |-> <<>>, val |-> r.ret,
                             wacc |-> 0, divisions |-> <<>>, weights |-> <<>> ])

ComputeIntrinsicValue ==
    /\ calls.client < MaxOps
    /\ \E w \in WaccArgs, g \in GrowthArgs :
         \E r \in { compute_intrinsic_value(Self, w, g) } :
             Becomes(r.self, [ op |-> "compute_intrinsic_value", args |-> <<w, g>>,
                               val |-> r.ret, wacc |-> w, divisions |-> <<>>,
                               weights |-> <<>> ])

CalculateIntrinsicValue ==
    /\ calls.client < MaxOps
    /\ \E r \in { calculate_intrinsic_value(Self) } :
           Becomes(r.self, [ op |-> "calculate_intrinsic_value", args |-> <<>>, val |-> r.ret,
                             wacc |-> r.wacc, divisions |-> <<>>, weights |-> <<>> ])

GenerateSensitivityTable ==
    /\ calls.client < MaxOps
    /\ \E r \in { generate_sensitivity_table(Self) } :
           Becomes(r.self, [ op |-> "generate_sensitivity_table", args |-> <<>>, val |-> r.ret,
                             wacc |-> 0, divisions |-> <<>>, weights |-> <<>> ])

Next ==
    \/ CalculateWacc
    \/ ForecastCashFlows
    \/ ComputeIntrinsicValue
    \/ CalculateIntrinsicValue
    \/ GenerateSensitivityTable

Spec == Init /\ [][Next]_vars

\* ------------------------------------------------------------------- fleet
\* Two DCFModel instances in one process, each constructed on its own
\* snapshot and assumptions; their method calls interleave in any order.
\* Python objects are references: fleet.lists is the heap of list objects
\* that hold traces, an engine's calculation_log names one of them, and
\* fleet.stdout is the one sys.stdout of the process.  fleet.order lists the
\* instances in the order their calls ran, fleet.history the calls made on
\* each and fleet.returned what the last call on each returned.
Engines == {"a", "b"}

\* a loss-making company with debt and preferred equity
LossData ==
    [BaseData EXCEPT !.ebit = <<-1600, -1800, -2000>>, !.market_cap = 35000,
                     !.total_debt = <<9000, 9500, 10000>>,
                     !.interest_expense = <<-450, -475, -500>>,
                     !.preferred_equity = <<5000, 5000, 5000>>,
                     !.preferred_dividends = <<-300, -300, -300>>,
                     !.effective_tax_rate = <<200, 200, 200>>]

FleetInputs ==
    [ a : { [data |-> BaseData,
             assumptions |-> [revenue_growth_rates |-> <<50, 50, 50, 50, 50>>,
                              terminal_growth_rate |-> 20, projection_years |-> 5]] },
      b : { [data |-> LossData,
             assumptions |-> [revenue_growth_rates |-> gr, terminal_growth_rate |-> 90,
                              projection_years |-> 5]] : gr \in {<<100, 50>>, <<>>} } ]

\* self.calculation_log = []: a new list object for the instance e
NewLog_class(e) == "DCFModel"
NewLog(e) == e

\* DCFModel.__init__ for instance e
NewEngine(e, input) ==
    [ data |-> input.data, assumptions |-> input.assumptions, wacc |-> 0,
      projections |-> <<>>, calculation_log |-> NewLog(e), calls |-> NoCalls ]

\* instance e of fleet f as its methods see it
EngineSelf(f, e) ==
    [ data |-> f.engines[e].data, assumptions |-> f.engines[e].assumptions,
      wacc |-> f.engines[e].wacc, projections |-> f.engines[e].projections,
      calculation_log |-> f.lists[f.engines[e].calculation_log],
      stdout |-> f.stdout, calls |-> f.engines[e].calls ]

\* the calculation trace of instance e
TraceOf(f, e) == f.lists[f.engines[e].calculation_log]

FleetInit ==
    /\ \E input \in FleetInputs :
         fleet = [ engines |-> [ e \in Engines |-> NewEngine(e, input[e]) ],
                   lists |-> [ l \in Engines \cup {"DCFModel"} |-> <<>> ],
                   stdout |-> <<>>,
                   input |-> input,
                   order |-> <<>>,
                   history |-> [ e \in Engines |-> <<>> ],
                   returned |-> [ e \in Engines |-> <<>> ],
                   steps |-> 0 ]
    /\ data = BaseData
    /\ assumptions = [ revenue_growth_rates |-> <<>>, terminal_growth_rate |-> 20,
                       projection_years |-> 5 ]
    /\ wacc = 0
    /\ projections = <<>>
    /\ calculation_log = <<>>
    /\ stdout = <<>>
    /\ calls = NoCalls
    /\ ret = [ op |-> "__init__", args |-> <<>>, val |-> <<>>, wacc |-> 0, divisions |-> <<>>,
               weights |-> <<>> ]
    /\ loader = <<>>
    /\ rate = <<>>
    /\ search = <<>>
    /\ web = <<>>

\* instance e after the method call has run on it, leaving self and
\* returning val
FleetBecomes(e, call, self, val) ==
    /\ fleet' =
         [ fleet EXCEPT
             !.engines[e] = [ @ EXCEPT !.data = self.data, !.assumptions = self.assumptions,
                                       !.wacc = self.wacc, !.projections = self.projections,
                                       !.calls = self.calls ],
             !.lists[fleet.engines[e].calculation_log] = self.calculation_log,
             !.stdout = self.stdout,
             !.order = Append(@, e),
             !.history[e] = Append(@, call),
             !.returned[e] = val,
             !.steps = @ + 1 ]
    /\ UNCHANGED <<data, assumptions, wacc, projections, calculation_log, stdout, calls, ret,
                   loader, rate, search, web>>

FleetCalculateWacc ==
    /\ fleet.steps < MaxFleetOps
    /\ \E e \in Engines : \E r \in { calculate_wacc(EngineSelf(fleet, e)) } :
         FleetBecomes(e, <<"calculate_wacc">>, r.self, r.ret)

FleetForecastCashFlows ==
    /\ fleet.steps < MaxFleetOps
    /\ \E e \in Engines : \E r \in { forecast_cash_flows(EngineSelf(fleet, e)) } :
         FleetBecomes(e, <<"forecast_cash_flows">>, r.self, r.ret)

FleetComputeIntrinsicValue ==
    /\ fleet.steps < MaxFleetOps
    /\ \E e \in Engines : \E r \in { compute_intrinsic_value(EngineSelf(fleet, e), 100, 20) } :
         FleetBecomes(e, <<"compute_intrinsic_value">>, r.self, r.ret)

FleetCalculateIntrinsicValue ==
    /\ fleet.steps < MaxFleetOps
    /\ \E e \in Engines : \E r \in { calculate_intrinsic_value(EngineSelf(fleet, e)) } :
         FleetBecomes(e, <<"calculate_intrinsic_value">>, r.self, r.ret)

FleetGenerateSensitivityTable ==
    /\ fleet.steps < MaxFleetOps
    /\ \E e \in Engines : \E r \in { generate_sensitivity_table(EngineSelf(fleet, e)) } :
         FleetBecomes(e, <<"generate_sensitivity_table">>, r.self, r.ret)

FleetNext ==
    \/ FleetCalculateWacc
    \/ FleetForecastCashFlows
    \/ FleetComputeIntrinsicValue
    \/ FleetCalculateIntrinsicValue
    \/ FleetGenerateSensitivityTable

FleetSpec == FleetInit /\ [][FleetNext]_vars

\* ------------------------------------------------------------------ loader
\* src/dcf_loader.py: HybridDataFetcher.assemble builds a FinancialData from
\* the statements of SEC Edgar or, failing that, of yfinance.
\*
\* A statement (a pandas DataFrame) is a record: cols, its year columns in
\* the order of the frame, years standing for their labels (2023 for the
\* Timestamp of 2023 or for 'FY2023'); rows, the line items it has a row
\* for; nan, the years whose cells are NaN.  A cell is <<v>> or, NaN, <<>>.
SeriesFields ==
    { "revenue", "ebit", "ebitda", "net_income", "interest_expense", "tax", "pretax",
      "current_assets", "current_liabilities", "cash_and_equivalents", "short_term_debt",
      "long_term_debt", "total_debt", "total_assets", "total_liabilities",
      "property_plant_equipment_net", "preferred_equity", "d_and_a", "capex",
      "preferred_dividends" }

CommonFields == SeriesFields \ {"preferred_equity", "preferred_dividends", "ebitda"}

EmptyFrame == [ cols |-> <<>>, rows |-> {}, nan |-> {} ]

\* the statements yfinance may return: columns newest first
YFIncomeFrames ==
    { [ cols |-> c, rows |-> r, nan |-> h ] :
        c \in { <<2023>>, <<2023, 2022>>, <<2023, 2022, 2021>>, <<2023, 2022, 2021, 2020>> },
        r \in { SeriesFields, CommonFields }, h \in { {}, {2023}, {2020, 2021, 2022, 2023} } }
    \cup { EmptyFrame }
YFOtherFrames ==
    { EmptyFrame,
      [ cols |-> <<2023, 2022, 2021>>, rows |-> SeriesFields, nan |-> {} ],
      [ cols |-> <<2023, 2022>>, rows |-> CommonFields, nan |-> {2022} ] }

\* the statements Edgar may return (each with a 'label' column, so a frame
\* with rows is not empty): 'FY' columns in any order
EdgarIncomeFrames ==
    { [ cols |-> c, rows |-> r, nan |-> h ] :
        c \in { <<>>, <<2023>>, <<2022, 2023>>, <<2021, 2022, 2023>>, <<2020, 2021, 2022, 2023>> },
        r \in { SeriesFields, CommonFields }, h \in { {}, {2023} } }
    \cup { EmptyFrame }
EdgarOtherFrames ==
    { EmptyFrame,
      [ cols |-> <<2021, 2022, 2023>>, rows |-> SeriesFields, nan |-> {} ],
      [ cols |-> <<2022, 2023>>, rows |-> CommonFields, nan |-> {2022} ] }

\* market data of get_market_data
MarketData ==
    { [ shares |-> 2000, beta |-> 1000, price |-> 25000, market_cap |-> 50000,
        treasury_yield |-> 42, market_return |-> 100 ],
      [ shares |-> 0, beta |-> 1000, price |-> 0, market_cap |-> 0,
        treasury_yield |-> 42, market_return |-> 100 ] }

\* the amount a statement reports for a line item in a year
Amount(field, year) == (year - 2015) * 100

CellOf(df, field, year) == IF year \in df.nan THEN <<>> ELSE <<Amount(field, year)>>

\* _safe_float: None and NaN become the default 0.0
safe_float(cell) == IF cell = <<>> THEN 0 ELSE cell[1]

Take(s, n) == SubSeq(s, 1, Min(n, Len(s)))
Reverse(s) == [ i \in 1..Len(s) |-> s[Len(s) + 1 - i] ]
Zeros(count) == [ i \in 1..count |-> 0 ]
\* while len(values) < count: values.append(0.0)
Pad(values, count) == values \o Zeros(count - Min(count, Len(values)))

\* _get_series_from_row (yfinance): the first tag whose row is not all zero
\* or NaN; its first count cells, cleaned, padded, oldest first
get_series_from_row(df, field, count) ==
    IF field \notin df.rows \/ \A i \in DOMAIN df.cols : df.cols[i] \in df.nan
    THEN Zeros(count)
    ELSE LET head == Take(df.cols, count)
         IN  Reverse(Pad([ i \in DOMAIN head |-> safe_float(CellOf(df, field, head[i])) ], count))

\* _get_dates_from_cols: the first count columns, oldest first
get_dates_from_cols(df, count) == Reverse(Take(df.cols, count))

\* year_cols.sort(reverse=True)
RECURSIVE SortDescending(_)
SortDescending(years) ==
    IF years = {} THEN <<>>
    ELSE LET newest == CHOOSE y \in years : \A z \in years : z <= y
         IN  <<newest>> \o SortDescending(years \ {newest})

YearCols(df) == SortDescending({ df.cols[i] : i \in DOMAIN df.cols })

\* HybridDataFetcher._get_edgar_series
get_edgar_series(df, field, count) ==
    IF df.rows = {} THEN Zeros(count)
    ELSE IF field \notin df.rows THEN Zeros(count)
    ELSE LET target_years == Take(YearCols(df), count)
         IN  Reverse(Pad([ i \in DOMAIN target_years |->
                             safe_float(CellOf(df, field, target_years[i])) ], count))

\* HybridDataFetcher._get_edgar_years ("YYYY" is year 0)
get_edgar_years(df, count) ==
    IF df.rows = {} THEN [ i \in 1..count |-> 0 ]
    ELSE Reverse(Take(YearCols(df), count))

\* eff_rates: t / p for each pair of zip(tax, pretax), 0.21 where p is 0
EffectiveRates(tax, pretax) ==
    [ i \in 1..Min(Len(tax), Len(pretax)) |->
        IF pretax[i] # 0 THEN RDiv(tax[i], pretax[i]) ELSE DefaultTaxRate ]

MarketFields(mkt) ==
    [ shares_outstanding |-> mkt.shares, beta |-> mkt.beta, stock_price |-> mkt.price,
      market_cap |-> mkt.market_cap, risk_free_rate |-> mkt.treasury_yield,
      market_return_rate |-> mkt.market_return ]

\* the record with the fields of both records
Merge(r1, r2) ==
    [ f \in DOMAIN r1 \cup DOMAIN r2 |-> IF f \in DOMAIN r1 THEN r1[f] ELSE r2[f] ]

\* HybridDataFetcher._process_yfinance_data
process_yfinance_data(inc, bal, cf, mkt) ==
    LET get(df, field) == get_series_from_row(df, field, 3)
    IN  Merge(
          [ years |-> get_dates_from_cols(inc, 3),
            revenue |-> get(inc, "revenue"),
            ebit |-> get(inc, "ebit"),
            ebitda |-> get(inc, "ebitda"),
            net_income |-> get(inc, "net_income"),
            effective_tax_rate |-> EffectiveRates(get(inc, "tax"), get(inc, "pretax")),
            interest_expense |-> get(inc, "interest_expense"),
            current_assets |-> get(bal, "current_assets"),
            current_liabilities |-> get(bal, "current_liabilities"),
            cash_and_equivalents |-> get(bal, "cash_and_equivalents"),
            short_term_debt |-> get(bal, "short_term_debt"),
            long_term_debt |-> get(bal, "long_term_debt"),
            total_debt |-> get(bal, "total_debt"),
            total_assets |-> get(bal, "total_assets"),
            total_liabilities |-> get(bal, "total_liabilities"),
            property_plant_equipment_net |-> get(bal, "property_plant_equipment_net"),
            preferred_equity |-> get(bal, "preferred_equity"),
            d_and_a |-> get(cf, "d_and_a"),
            capex |-> get(cf, "capex"),
            preferred_dividends |-> <<>> ],
          MarketFields(mkt))

\* HybridDataFetcher._process_edgar_data (ebitda starts as the net income
\* row and is patched with ebit + d_and_a where it is 0)
process_edgar_data(inc, bal, cf, mkt) ==
    LET get(df, field) == get_edgar_series(df, field, 3)
        ebitda == get(inc, "net_income")
    IN  Merge(
          [ years |-> get_edgar_years(inc, 3),
            revenue |-> get(inc, "revenue"),
            ebit |-> get(inc, "ebit"),
            ebitda |-> [ i \in 1..3 |-> IF ebitda[i] = 0
                                        THEN get(inc, "ebit")[i] + get(cf, "d_and_a")[i]
                                        ELSE ebitda[i] ],
            net_income |-> get(inc, "net_income"),
            effective_tax_rate |-> EffectiveRates(get(inc, "tax"), get(inc, "pretax")),
            interest_expense |-> get(inc, "interest_expense"),
            current_assets |-> get(bal, "current_assets"),
            current_liabilities |-> get(bal, "current_liabilities"),
            cash_and_equivalents |-> get(bal, "cash_and_equivalents"),
            short_term_debt |-> get(bal, "short_term_debt"),
            long_term_debt |-> get(bal, "long_term_debt"),
            total_debt |-> get(bal, "total_debt"),
            total_assets |-> get(bal, "total_assets"),
            total_liabilities |-> get(bal, "total_liabilities"),
            property_plant_equipment_net |-> get(bal, "property_plant_equipment_net"),
            preferred_equity |-> get(bal, "preferred_equity"),
            d_and_a |-> get(cf, "d_and_a"),
            capex |-> get(cf, "capex"),
            preferred_dividends |-> get(cf, "preferred_dividends") ],
          MarketFields(mkt))

\* df.empty: an axis of length 0
EmptyYF(df) == df.cols = <<>> \/ df.rows = {}
EmptyEdgar(df) == df.rows = {}

\* a run of load_data_from_api: pc is where the run is, mkt the market data,
\* inc, bal, cf the statements at hand, source and fd the provider and the
\* FinancialData of a finished run
LoaderInit ==
    /\ loader = [ pc |-> "get_market_data", mkt |-> <<>>, inc |-> EmptyFrame,
                  bal |-> EmptyFrame, cf |-> EmptyFrame, source |-> "", fd |-> <<>> ]
    /\ fleet = <<>>
    /\ rate = <<>>
    /\ search = <<>>
    /\ web = <<>>
    /\ data = BaseData
    /\ assumptions = [ revenue_growth_rates |-> <<>>, terminal_growth_rate |-> 20,
                       projection_years |-> 5 ]
    /\ wacc = 0
    /\ projections = <<>>
    /\ calculation_log = <<>>
    /\ stdout = <<>>
    /\ calls = NoCalls
    /\ ret = [ op |-> "__init__", args |-> <<>>, val |-> <<>>, wacc |-> 0, divisions |-> <<>>,
               weights |-> <<>> ]

LoaderBecomes(next) ==
    /\ loader' = next
    /\ UNCHANGED <<data, assumptions, wacc, projections, calculation_log, stdout, calls, ret,
                   fleet, rate, search, web>>

\* get_market_data returns the market data or raises, which ends the run
GetMarketData ==
    /\ loader.pc = "get_market_data"
    /\ \/ \E mkt \in MarketData :
            LoaderBecomes([loader EXCEPT !.pc = "get_financials_via_edgar", !.mkt = mkt])
       \/ LoaderBecomes([loader EXCEPT !.pc = "raised"])

\* get_financials_via_edgar returns three statements or raises; assemble
\* catches the exception and goes on with yfinance
GetFinancialsViaEdgar ==
    /\ loader.pc = "get_financials_via_edgar"
    /\ \/ \E inc \in EdgarIncomeFrames, bal \in EdgarOtherFrames, cf \in EdgarOtherFrames :
            LoaderBecomes([loader EXCEPT !.pc = "edgar", !.inc = inc, !.bal = bal, !.cf = cf])
       \/ LoaderBecomes([loader EXCEPT !.pc = "get_financials_via_yfinance"])

\* if not inc.empty and not bal.empty: return self._process_edgar_data(...)
ProcessEdgarData ==
    /\ loader.pc = "edgar"
    /\ ~EmptyEdgar(loader.inc) /\ ~EmptyEdgar(loader.bal)
    /\ LoaderBecomes([loader EXCEPT
           !.pc = "returned", !.source = "edgar",
           !.fd = process_edgar_data(loader.inc, loader.bal, loader.cf, loader.mkt)])

\* otherwise assemble falls through to yfinance
EdgarUnusable ==
    /\ loader.pc = "edgar"
    /\ EmptyEdgar(loader.inc) \/ EmptyEdgar(loader.bal)
    /\ LoaderBecomes([loader EXCEPT !.pc = "get_financials_via_yfinance", !.inc = EmptyFrame,
                                    !.bal = EmptyFrame, !.cf = EmptyFrame])

\* get_financials_via_yfinance returns three statements or raises; assemble
\* then raises ValueError
GetFinancialsViaYFinance ==
    /\ loader.pc = "get_financials_via_yfinance"
    /\ \/ \E inc \in YFIncomeFrames, bal \in YFOtherFrames, cf \in YFOtherFrames :
            LoaderBecomes([loader EXCEPT !.pc = "yfinance", !.inc = inc, !.bal = bal, !.cf = cf])
       \/ LoaderBecomes([loader EXCEPT !.pc = "raised"])

\* if not inc.empty and not bal.empty: return self._process_yfinance_data(...)
ProcessYFinanceData ==
    /\ loader.pc = "yfinance"
    /\ ~EmptyYF(loader.inc) /\ ~EmptyYF(loader.bal)
    /\ LoaderBecomes([loader EXCEPT
           !.pc = "returned", !.source = "yfinance",
           !.fd = process_yfinance_data(loader.inc, loader.bal, loader.cf, loader.mkt)])

\* raise ValueError("Could not fetch data ...")
YFinanceUnusable ==
    /\ loader.pc = "yfinance"
    /\ EmptyYF(loader.inc) \/ EmptyYF(loader.bal)
    /\ LoaderBecomes([loader EXCEPT !.pc = "raised"])

LoaderNext ==
    \/ GetMarketData
    \/ GetFinancialsViaEdgar
    \/ ProcessEdgarData
    \/ EdgarUnusable
    \/ GetFinancialsViaYFinance
    \/ ProcessYFinanceData
    \/ YFinanceUnusable

LoaderSpec == LoaderInit /\ [][LoaderNext]_vars

\* ------------------------------------------------------------ rate limiters
\* check_rate_limit of src/ticker_search.py and check_valuation_rate_limit of
\* src/app.py: each keeps a module-level dict from client IP to the list of
\* the times of its accepted requests.  Calls are sequential; time.time()
\* never goes back.  The two dicts are independent, so a behaviour exercises
\* one endpoint: rate.endpoint names it.  rate.now is the clock at the last
\* call, rate.last the last call <<ip, returned>>, rate.accepted the times of
\* the calls that returned True, per IP, and rate.others the number of calls
\* of the second client.
Client == "10.0.0.1"
Other == "10.0.0.2"
IPs == {Client, Other}

\* seconds that pass between two calls
Ticks == {0, 30, 60}

\* no engine is constructed in the behaviours of the web layer
NoEngine ==
    /\ data = BaseData
    /\ assumptions = [ revenue_growth_rates |-> <<>>, terminal_growth_rate |-> 20,
                       projection_years |-> 5 ]
    /\ wacc = 0
    /\ projections = <<>>
    /\ calculation_log = <<>>
    /\ stdout = <<>>
    /\ calls = NoCalls
    /\ ret = [ op |-> "__init__", args |-> <<>>, val |-> <<>>, wacc |-> 0, divisions |-> <<>>,
               weights |-> <<>> ]

RATE_LIMIT_WINDOW == 60
RATE_LIMIT_MAX == 30
VALUATION_RATE_WINDOW == 60
VALUATION_RATE_MAX == 10

\* the test that keeps a timestamp: now - t < window
Fresh_inclusive(now, t, window) == now - t <= window
Fresh(now, t, window) == now - t < window

\* the test that rejects a request: len(timestamps) >= max
Full_late(count, max) == count > max
Full(count, max) == count >= max

\* dict[ip] after "if ip not in dict: dict[ip] = []"
WithKey(table, ip) == IF ip \in DOMAIN table THEN table ELSE (ip :> <<>>) @@ table

\* check_rate_limit(ip) at time now on the dict _rate_limit
check_rate_limit(table, ip, now) ==
    LET kept == SelectSeq(WithKey(table, ip)[ip], LAMBDA t : Fresh(now, t, RATE_LIMIT_WINDOW))
        pruned == [WithKey(table, ip) EXCEPT ![ip] = kept]
    IN  IF Full(Len(kept), RATE_LIMIT_MAX)
        THEN [ table |-> pruned, ret |-> FALSE ]
        ELSE [ table |-> [pruned EXCEPT ![ip] = Append(@, now)], ret |-> TRUE ]

\* check_valuation_rate_limit(ip) at time now on the dict _valuation_rate_limit
check_valuation_rate_limit(table, ip, now) ==
    LET kept == SelectSeq(WithKey(table, ip)[ip],
                          LAMBDA t : Fresh(now, t, VALUATION_RATE_WINDOW))
        pruned == [WithKey(table, ip) EXCEPT ![ip] = kept]
    IN  IF Full(Len(kept), VALUATION_RATE_MAX)
        THEN [ table |-> pruned, ret |-> FALSE ]
        ELSE [ table |-> [pruned EXCEPT ![ip] = Append(@, now)], ret |-> TRUE ]

RateInit ==
    /\ rate \in { [ endpoint |-> e, now |-> 0, table |-> <<>>, last |-> <<>>,
                    accepted |-> [ ip \in IPs |-> <<>> ], others |-> 0 ]
                  : e \in {"search", "valuation"} }
    /\ fleet = <<>>
    /\ loader = <<>>
    /\ search = <<>>
    /\ web = <<>>
    /\ NoEngine

\* the limiter after a call by ip at time now that left the dict r.table and
\* returned r.ret
RateBecomes(ip, now, r) ==
    /\ rate' = [ rate EXCEPT
                   !.now = now,
                   !.table = r.table,
                   !.last = <<ip, r.ret>>,
                   !.accepted[ip] = IF r.ret THEN Append(@, now) ELSE @,
                   !.others = IF ip = Other THEN @ + 1 ELSE @ ]
    /\ UNCHANGED <<data, assumptions, wacc, projections, calculation_log, stdout, calls, ret,
                   fleet, loader, search, web>>

\* a request to /api/search
CheckRateLimit ==
    /\ rate.endpoint = "search"
    /\ \E ip \in IPs, tick \in Ticks :
         /\ rate.now + tick <= MaxClock
         /\ ip = Other => rate.others < MaxOtherCalls
         /\ \E r \in { check_rate_limit(rate.table, ip, rate.now + tick) } :
              RateBecomes(ip, rate.now + tick, r)

\* a valuation request (POST /)
CheckValuationRateLimit ==
    /\ rate.endpoint = "valuation"
    /\ \E ip \in IPs, tick \in Ticks :
         /\ rate.now + tick <= MaxClock
         /\ ip = Other => rate.others < MaxOtherCalls
         /\ \E r \in { check_valuation_rate_limit(rate.table, ip, rate.now + tick) } :
              RateBecomes(ip, rate.now + tick, r)

RateNext ==
    \/ CheckRateLimit
    \/ CheckValuationRateLimit

RateSpec == RateInit /\ [][RateNext]_vars

\* ------------------------------------------------------------ ticker search
\* search_tickers of src/ticker_search.py and its in-memory cache.  A query
\* is a sequence of characters.  search.now is the clock in hours at the last
\* call, search.cache the dict _search_cache and search.last the last call:
\* its query and limit, what it returned and where the result came from
\* ("short": the query was too short, "cache", "upstream", or "failed": the
\* upstream search raised).
Queries ==
    { <<"a", "a">>, <<"A", "A">>, <<" ", "a", "a", " ">>, <<"a", "b">>, <<"a">>, <<>> }

\* the limit argument
Limits == {1, 2, 3}

\* hours that pass between two calls
SearchTicks == {0, 12, 24}

CACHE_TTL_HOURS == 24

\* str.upper on a character
upper(c) == IF c = "a" THEN "A" ELSE IF c = "b" THEN "B" ELSE c

\* str.strip
RECURSIVE lstrip(_)
lstrip(q) == IF q # <<>> /\ Head(q) = " " THEN lstrip(Tail(q)) ELSE q
strip(q) == Reverse(lstrip(Reverse(lstrip(q))))

\* _get_cache_key: the md5 digest of the normalized query; the digest is
\* taken to be collision-free
get_cache_key(query) ==
    <<"md5">> \o [ i \in 1..Len(strip(query)) |-> upper(strip(query)[i]) ]

\* what the upstream search has for a query, best match first; it is the
\* same on every call and ignores case and surrounding blanks
Upstream(query) ==
    IF get_cache_key(query) = <<"md5", "A", "A">> THEN <<"AA", "AAL", "AAPL">>
    ELSE IF get_cache_key(query) = <<"md5", "A", "B">> THEN <<"ABT">>
    ELSE <<>>

\* yf.Search(query, max_results=limit).quotes
Search(query, limit) == Take(Upstream(query), limit)

\* _get_cached_results: hit says whether an entry younger than the TTL was
\* found, data is its list; an expired entry is deleted
get_cached_results(cache, query, now) ==
    LET key == get_cache_key(query)
    IN  IF key \in DOMAIN cache
        THEN IF now - cache[key].timestamp < CACHE_TTL_HOURS
             THEN [ cache |-> cache, hit |-> TRUE, data |-> cache[key].data ]
             ELSE [ cache |-> [ k \in DOMAIN cache \ {key} |-> cache[k] ],
                    hit |-> FALSE, data |-> <<>> ]
        ELSE [ cache |-> cache, hit |-> FALSE, data |-> <<>> ]

\* _prune_cache: remove the expired entries
prune_cache(cache, now) ==
    [ k \in { k \in DOMAIN cache : ~(now - cache[k].timestamp > CACHE_TTL_HOURS) } |-> cache[k] ]

\* _set_cached_results
set_cached_results(cache, query, results, now) ==
    LET stored == (get_cache_key(query) :> [ timestamp |-> now, data |-> results ]) @@ cache
    IN  IF Cardinality(DOMAIN stored) > 1000 THEN prune_cache(stored, now) ELSE stored

\* search_tickers(query, limit) at time now; ok says whether the upstream
\* search answers or raises
search_tickers(cache, query, limit, now, ok) ==
    LET cached == get_cached_results(cache, query, now)
        results == Take(Search(query, limit), limit)
    IN  IF Len(query) < 2
        THEN [ cache |-> cache, ret |-> <<>>, from |-> "short" ]
        ELSE IF cached.hit
        THEN [ cache |-> cached.cache, ret |-> Take(cached.data, limit), from |-> "cache" ]
        ELSE IF ~ok
        THEN [ cache |-> cached.cache, ret |-> <<>>, from |-> "failed" ]
        ELSE [ cache |-> set_cached_results(cached.cache, query, results, now),
               ret |-> Take(results, limit), from |-> "upstream" ]

SearchInit ==
    /\ search = [ now |-> 0, cache |-> <<>>, last |-> <<>> ]
    /\ fleet = <<>>
    /\ loader = <<>>
    /\ rate = <<>>
    /\ web = <<>>
    /\ NoEngine

SearchTickers ==
    /\ \E query \in Queries, limit \in Limits, tick \in SearchTicks, ok \in BOOLEAN :
         /\ search.now + tick <= MaxHours
         /\ \E r \in { search_tickers(search.cache, query, limit, search.now + tick, ok) } :
              search' = [ now |-> search.now + tick, cache |-> r.cache,
                          last |-> [ query |-> query, limit |-> limit, ret |-> r.ret,
                                     from |-> r.from ] ]
    /\ UNCHANGED <<data, assumptions, wacc, projections, calculation_log, stdout, calls, ret,
                   fleet, loader, rate, web>>

SearchNext == SearchTickers

SearchSpec == SearchInit /\ [][SearchNext]_vars

\* ---------------------------------------------------------------- web app
\* calculate_dcf of src/dcf_webapp/app.py (POST /calculate), served to
\* concurrent requests by the threads of one process.  sys.stdout is one
\* variable of the process; a stream is named "console" (the stream
\* installed when the process started) or by the request whose StringIO it
\* is.  web.streams is what each stream has received, a line being the name
\* of the request whose model run printed it.  Per request: pc is the
\* statement it is at, old its local old_stdout, printed the number of lines
\* its run has printed, raised whether an exception is propagating, logs its
\* calculation_logs and outcome the status of its response.
Requests == {"r1", "r2"}
Console == "console"

WebInit ==
    /\ web = [ sys_stdout |-> Console,
               streams |-> [ s \in Requests \cup {Console} |-> <<>> ],
               pc |-> [ r \in Requests |-> "validate" ],
               old |-> [ r \in Requests |-> "" ],
               printed |-> [ r \in Requests |-> 0 ],
               raised |-> [ r \in Requests |-> FALSE ],
               logs |-> [ r \in Requests |-> <<>> ],
               outcome |-> [ r \in Requests |-> "" ] ]
    /\ fleet = <<>>
    /\ loader = <<>>
    /\ rate = <<>>
    /\ search = <<>>
    /\ NoEngine

WebBecomes(next) ==
    /\ web' = next
    /\ UNCHANGED <<data, assumptions, wacc, projections, calculation_log, stdout, calls, ret,
                   fleet, loader, rate, search>>

\* the validation of the inputs: a 400 response, or on to the capture
Validate ==
    \E r \in Requests :
      /\ web.pc[r] = "validate"
      /\ \/ WebBecomes([web EXCEPT !.pc[r] = "done", !.outcome[r] = "400"])
         \/ WebBecomes([web EXCEPT !.pc[r] = "save"])

\* old_stdout = sys.stdout
SaveStdout ==
    \E r \in Requests :
      /\ web.pc[r] = "save"
      /\ WebBecomes([web EXCEPT !.pc[r] = "install", !.old[r] = web.sys_stdout])

\* sys.stdout = captured_output = StringIO()
InstallBuffer ==
    \E r \in Requests :
      /\ web.pc[r] = "install"
      /\ WebBecomes([web EXCEPT !.pc[r] = "load", !.sys_stdout = r])

\* load_data_from_api(ticker) returns the snapshot or raises
LoadData ==
    \E r \in Requests :
      /\ web.pc[r] = "load"
      /\ \/ WebBecomes([web EXCEPT !.pc[r] = "run"])
         \/ WebBecomes([web EXCEPT !.pc[r] = "restore", !.raised[r] = TRUE])

\* DCFModel(...).calculate_intrinsic_value(): each print of the run writes a
\* line to the stream sys.stdout names at that moment; the run ends after
\* its last line, or raises
PrintLine ==
    \E r \in Requests :
      /\ web.pc[r] = "run"
      /\ \/ /\ web.printed[r] < MaxLines
            /\ WebBecomes([web EXCEPT !.streams[web.sys_stdout] = Append(@, r),
                                      !.printed[r] = @ + 1])
         \/ /\ web.printed[r] = MaxLines
            /\ WebBecomes([web EXCEPT !.pc[r] = "getvalue"])
         \/ WebBecomes([web EXCEPT !.pc[r] = "restore", !.raised[r] = TRUE])

\* calculation_logs = captured_output.getvalue()
GetValue ==
    \E r \in Requests :
      /\ web.pc[r] = "getvalue"
      /\ WebBecomes([web EXCEPT !.pc[r] = "restore", !.logs[r] = web.streams[r]])

\* finally: sys.stdout = old_stdout, then the response: the JSON with the
\* logs, or the 500 of the except branch
RestoreStdout ==
    \E r \in Requests :
      /\ web.pc[r] = "restore"
      /\ WebBecomes([web EXCEPT !.pc[r] = "done", !.sys_stdout = web.old[r],
                                !.outcome[r] = IF web.raised[r] THEN "500" ELSE "200"])

WebNext ==
    \/ Validate
    \/ SaveStdout
    \/ InstallBuffer
    \/ LoadData
    \/ PrintLine
    \/ GetValue
    \/ RestoreStdout

WebSpec == WebInit /\ [][WebNext]_vars

\* ------------------------------------------------------------------ claims
TerminalGrowth == assumptions.terminal_growth_rate
HasForecast == projections # <<>>
HasZeroRevenue == \E i \in DOMAIN data.revenue : data.revenue[i] = 0
TotalValue ==
    data.market_cap + LatestOr(data.total_debt, 0) + LatestOr(data.preferred_equity, 0)
CentreCell(table) == table.matrix[3][2][3]

\* C1: compute_intrinsic_value(wacc, g) returns exactly 0.0 whenever
\* wacc <= g, wacc = g included, whatever forecast is cached.
C1_InvalidScenarioIsZero ==
    (ret.op = "compute_intrinsic_value" /\ ret.args[1] <= ret.args[2]) => ret.val = Zero

\* a call with wacc = g on a cached forecast and a positive share count
C1_Witness ==
    /\ ret.op = "compute_intrinsic_value"
    /\ ret.args[1] = ret.args[2]
    /\ HasForecast
    /\ data.shares_outstanding > 0
    /\ ret.val = Zero

\* C2: calculate_intrinsic_value returns the sentinel 0.0 whenever the WACC
\* it computed is <= the terminal growth rate of the assumptions.
C2_ValuationSentinel ==
    (ret.op = "calculate_intrinsic_value" /\ ret.wacc <= TerminalGrowth) => ret.val = Zero

\* C3: the centre cell of a sensitivity table generated right after
\* calculate_intrinsic_value, rounded to 2 decimals, is the target price that
\* call returned.
C3_CentreCellIsTargetPrice ==
    [][ (ret.op = "calculate_intrinsic_value" /\ ret'.op = "generate_sensitivity_table")
        => Round2(CentreCell(ret'.val)) = ret.val ]_vars

\* C4: a second calculate_intrinsic_value right after a first returns the same
\* target price and leaves the same stored WACC and the same forecast rows.
C4_ValuationIdempotent ==
    [][ (ret.op = "calculate_intrinsic_value" /\ ret'.op = "calculate_intrinsic_value")
        => (ret'.val = ret.val /\ wacc' = wacc /\ projections' = projections) ]_vars

\* two valuations in a row that produced a forecast and a price
C4_Witness ==
    /\ ret.op = "calculate_intrinsic_value"
    /\ calls.valuation = 2
    /\ calls.client = 2
    /\ HasForecast
    /\ IsFinite(ret.val)
    /\ ret.val # Zero

\* C5: with a zero in the historical revenue the margin estimator fails, so
\* no forecast and no valuation call returns and no forecast rows are stored.
C5_ZeroRevenueFails ==
    HasZeroRevenue =>
        /\ ret.op \notin {"forecast_cash_flows", "calculate_intrinsic_value"}
        /\ ~HasForecast

\* C6 as claimed: with a total capitalization of zero calculate_wacc returns
\* 0.10 and has evaluated no division at all.
C6_FallbackWithoutAnyDivision ==
    (ret.op = "calculate_wacc" /\ TotalValue = 0)
        => (ret.val = 100 /\ ret.divisions = <<>>)

\* C6 as amended: with a total capitalization of zero calculate_wacc returns
\* 0.10 and has not divided by the total; the one division it may have
\* evaluated is |latest interest expense| / latest total debt, and only with
\* a positive total debt.
C6_FallbackWithoutWeightDivision ==
    (ret.op = "calculate_wacc" /\ TotalValue = 0)
        => /\ ret.val = 100
           /\ Len(ret.divisions) <= 1
           /\ \A i \in DOMAIN ret.divisions :
                /\ ret.divisions[i] = << Abs(LatestOr(data.interest_expense, 0)),
                                         LatestOr(data.total_debt, 0) >>
                /\ ret.divisions[i][2] > 0

\* calculate_wacc on a snapshot whose debt is offset by negative preferred
\* equity: the total is zero and the cost of debt was computed by division
C6_Witness ==
    /\ ret.op = "calculate_wacc"
    /\ TotalValue = 0
    /\ ret.val = 100
    /\ ret.divisions # <<>>

\* C7: after every call of calculate_wacc the stored self.wacc is the value
\* the call returned.
C7_StoredWaccIsReturned ==
    ret.op = "calculate_wacc" => wacc = ret.val

\* C8: generate_sensitivity_table returns the 5 growth steps base_g - 0.02 ..
\* base_g + 0.02 ascending and 5 rows (w, prices), w = base_wacc - 0.01 ..
\* base_wacc + 0.01 ascending, each with 5 prices, prices[j] being
\* compute_intrinsic_value(w, g_steps[j]); a cell with w <= g holds 0.0.
C8_SensitivityGrid ==
    ret.op = "generate_sensitivity_table" =>
        LET g_steps == ret.val.g_steps
            matrix == ret.val.matrix
        IN  /\ g_steps = << TerminalGrowth - 20, TerminalGrowth - 10, TerminalGrowth,
                            TerminalGrowth + 10, TerminalGrowth + 20 >>
            /\ \A j \in 1..4 : g_steps[j] < g_steps[j + 1]
            /\ Len(matrix) = 5
            /\ \A i \in 1..5 : matrix[i][1] = wacc + <<-10, -5, 0, 5, 10>>[i]
            /\ \A i \in 1..4 : matrix[i][1] < matrix[i + 1][1]
            /\ \A i \in 1..5 :
                 /\ Len(matrix[i][2]) = 5
                 /\ \A j \in 1..5 :
                      /\ matrix[i][2][j] =
                           compute_intrinsic_value(Self, matrix[i][1], g_steps[j]).ret
                      /\ matrix[i][1] <= g_steps[j] => matrix[i][2][j] = Zero

\* a table after a valuation with cells on both sides of the w <= g boundary
C8_Witness ==
    /\ ret.op = "generate_sensitivity_table"
    /\ calls.valuation = 1
    /\ wacc > TerminalGrowth
    /\ HasForecast
    /\ \E i, j \in 1..5 : ret.val.matrix[i][1] <= ret.val.g_steps[j]
    /\ \E i, j \in 1..5 : IsFinite(ret.val.matrix[i][2][j]) /\ ret.val.matrix[i][2][j] # Zero

\* C9: once a forecast is cached, generate_sensitivity_table leaves the
\* forecast rows and the stored WACC as they were, and each of the 25 cells is
\* the bridge applied to that one cached forecast at the cell's (wacc, g).
C9_SensitivityKeepsForecast ==
    [][ (ret'.op = "generate_sensitivity_table" /\ HasForecast)
        => /\ projections' = projections
           /\ wacc' = wacc
           /\ \A i, j \in 1..5 :
                ret'.val.matrix[i][2][j] =
                    compute_intrinsic_value(Self, ret'.val.matrix[i][1],
                                            ret'.val.g_steps[j]).ret ]_vars

\* a table generated from a cached forecast and a computed base WACC
C9_Witness ==
    /\ ret.op = "generate_sensitivity_table"
    /\ HasForecast
    /\ calls.forecast = 1
    /\ calls.bridge = 25
    /\ wacc # 0

\* C10: with shares_outstanding <= 0 calculate_intrinsic_value returns 0.0,
\* and so does compute_intrinsic_value(wacc, g) for every wacc > g.
C10_NoSharesIsZero ==
    data.shares_outstanding <= 0 =>
        /\ ret.op = "calculate_intrinsic_value" => ret.val = Zero
        /\ (ret.op = "compute_intrinsic_value" /\ ret.args[1] > ret.args[2]) => ret.val = Zero

\* a bridge call with wacc > g on a forecast of a company with a negative
\* share count
C10_Witness ==
    /\ data.shares_outstanding < 0
    /\ ret.op = "compute_intrinsic_value"
    /\ ret.args[1] > ret.args[2]
    /\ HasForecast
    /\ ret.val = Zero

\* ------------------------------------------------- comparisons of prices
\* x > y and x < y on numpy values: false as soon as an operand is nan
Gt(x, y) == The({ Len(p) = 2 /\ p[1] > p[2] : p \in {x \o y} })
Lt(x, y) == Gt(y, x)

Shares == data.shares_outstanding
Cell(table, i, j) == table.matrix[i][2][j]
RowWacc(table, i) == table.matrix[i][1]

\* every UFCF of the forecast is a positive number
PositiveFlows(rows) ==
    /\ rows # <<>>
    /\ \A i \in DOMAIN rows : Gt(rows[i].UFCF, Zero)

\* the last UFCF of the forecast is a positive number
PositiveFinalFlow(rows) == rows # <<>> /\ Gt(Last(rows).UFCF, Zero)

\* two bridge calls in a row on the cached forecast
TwoBridgeCalls ==
    /\ ret.op = "compute_intrinsic_value"
    /\ ret'.op = "compute_intrinsic_value"
    /\ HasForecast
    /\ Shares > 0

\* every column of the table falls strictly from row to row where w > g
ColumnsDecrease(table) ==
    \A j \in 1..5 : \A i1, i2 \in 1..5 :
        (i1 < i2 /\ RowWacc(table, i1) > table.g_steps[j])
            => Gt(Cell(table, i1, j), Cell(table, i2, j))

\* every row of the table rises strictly from column to column while g < w
RowsIncrease(table) ==
    \A i \in 1..5 : \A j1, j2 \in 1..5 :
        (j1 < j2 /\ table.g_steps[j2] < RowWacc(table, i))
            => Lt(Cell(table, i, j1), Cell(table, i, j2))

\* C11 as claimed: on a fixed forecast, with shares > 0 and a fixed g, the
\* price at w1 is strictly above the price at w2 for g < w1 < w2; every
\* column of the sensitivity matrix falls strictly down its rows where w > g.
\* (Stated for the forecasts that have a year and hold numbers only.)
C11_PriceFallsWithWacc ==
    [][ /\ (TwoBridgeCalls /\ FiniteFlows(projections)
              /\ ret.args[2] = ret'.args[2]
              /\ ret.args[2] < ret.args[1] /\ ret.args[1] < ret'.args[1])
            => Gt(ret.val, ret'.val)
        /\ (ret'.op = "generate_sensitivity_table" /\ Shares > 0
              /\ FiniteFlows(projections'))
            => ColumnsDecrease(ret'.val) ]_vars

\* C11 as amended: the same for a forecast whose UFCFs are all positive.
C11_PriceFallsWithWaccOnPositiveFlows ==
    [][ /\ (TwoBridgeCalls /\ PositiveFlows(projections)
              /\ ret.args[2] = ret'.args[2]
              /\ ret.args[2] < ret.args[1] /\ ret.args[1] < ret'.args[1])
            => Gt(ret.val, ret'.val)
        /\ (ret'.op = "generate_sensitivity_table" /\ Shares > 0
              /\ PositiveFlows(projections'))
            => ColumnsDecrease(ret'.val) ]_vars

\* a table on positive flows whose 25 cells all have w > g and whose first
\* column falls strictly over the five rows
C11_Witness ==
    /\ ret.op = "generate_sensitivity_table"
    /\ Shares > 0
    /\ PositiveFlows(projections)
    /\ RowWacc(ret.val, 1) > ret.val.g_steps[5]
    /\ \A i \in 1..4 : Gt(Cell(ret.val, i, 1), Cell(ret.val, i + 1, 1))

\* C12 as claimed: on a fixed forecast, with shares > 0 and a fixed w, the
\* price at g1 is strictly below the price at g2 for g1 < g2 < w; every row
\* of the sensitivity matrix rises strictly left to right up to the w <= g
\* boundary.  (Stated for the forecasts that have a year and hold numbers
\* only.)
C12_PriceRisesWithGrowth ==
    [][ /\ (TwoBridgeCalls /\ FiniteFlows(projections)
              /\ ret.args[1] = ret'.args[1]
              /\ ret.args[2] < ret'.args[2] /\ ret'.args[2] < ret.args[1])
            => Lt(ret.val, ret'.val)
        /\ (ret'.op = "generate_sensitivity_table" /\ Shares > 0
              /\ FiniteFlows(projections'))
            => RowsIncrease(ret'.val) ]_vars

\* C12 as amended: the same for a forecast whose last UFCF is positive.
C12_PriceRisesWithGrowthOnPositiveFinalFlow ==
    [][ /\ (TwoBridgeCalls /\ PositiveFinalFlow(projections)
              /\ ret.args[1] = ret'.args[1]
              /\ ret.args[2] < ret'.args[2] /\ ret'.args[2] < ret.args[1])
            => Lt(ret.val, ret'.val)
        /\ (ret'.op = "generate_sensitivity_table" /\ Shares > 0
              /\ PositiveFinalFlow(projections'))
            => RowsIncrease(ret'.val) ]_vars

\* a table on a positive last flow with a row that crosses the w <= g
\* boundary and rises strictly up to it
C12_Witness ==
    /\ ret.op = "generate_sensitivity_table"
    /\ Shares > 0
    /\ PositiveFinalFlow(projections)
    /\ \E i \in 1..5 :
         /\ RowWacc(ret.val, i) > ret.val.g_steps[3]
         /\ RowWacc(ret.val, i) <= ret.val.g_steps[5]
         /\ Lt(Cell(ret.val, i, 1), Cell(ret.val, i, 2))
         /\ Lt(Cell(ret.val, i, 2), Cell(ret.val, i, 3))

\* ------------------------------------------------------ the WACC, restated
\* the newest entry of a series of the snapshot, or a default
Newest(series, default) == IF series = <<>> THEN default ELSE series[Len(series)]

LatestDebt == Newest(data.total_debt, 0)
LatestPreferred == Newest(data.preferred_equity, 0)
Capitalization == data.market_cap + LatestDebt + LatestPreferred
CapmCostOfEquity ==
    data.risk_free_rate + RMul(data.beta, data.market_return_rate - data.risk_free_rate)

\* C13: with a non-zero total capitalization calculate_wacc returns
\* w_e*ce + w_d*cd*(1 - tax) + w_p*cp, with ce the CAPM cost of equity, cd
\* |interest| / debt for a positive debt and 0.05 otherwise, tax the latest
\* effective tax rate (0.21 without one), cp |dividends| / preferred equity
\* for a positive preferred equity and 0 otherwise, and the weights the three
\* components over their sum; without debt and preferred equity and with a
\* positive market cap the result is ce.
C13_WaccFormula ==
    (ret.op = "calculate_wacc" /\ Capitalization # 0) =>
        LET cd == IF LatestDebt > 0
                  THEN RDiv(Abs(Newest(data.interest_expense, 0)), LatestDebt) ELSE 50
            tax == Newest(data.effective_tax_rate, 210)
            cp == IF LatestPreferred > 0
                  THEN RDiv(Abs(Newest(data.preferred_dividends, 0)), LatestPreferred) ELSE 0
            w_e == RDiv(data.market_cap, Capitalization)
            w_d == RDiv(LatestDebt, Capitalization)
            w_p == RDiv(LatestPreferred, Capitalization)
        IN  /\ ret.val = RMul(w_e, CapmCostOfEquity) + RMul(w_d, RMul(cd, Scale - tax))
                         + RMul(w_p, cp)
            /\ (LatestDebt = 0 /\ LatestPreferred = 0 /\ data.market_cap > 0)
                   => ret.val = CapmCostOfEquity

\* calculate_wacc on a snapshot with equity, a debt that grew over the years
\* and preferred equity: all three terms count
C13_Witness ==
    /\ ret.op = "calculate_wacc"
    /\ data.market_cap > 0
    /\ data.total_debt # <<>>
    /\ LatestDebt > data.total_debt[1]
    /\ LatestPreferred > 0
    /\ data.preferred_dividends # <<>>
    /\ ret.val < CapmCostOfEquity

WeightSum == ret.weights[1] + ret.weights[2] + ret.weights[3]

\* C14 as claimed: the three weights calculate_wacc uses outside the
\* zero-capitalization fallback sum to exactly 1.
C14_WeightsSumToOne ==
    (ret.op = "calculate_wacc" /\ ret.weights # <<>>) => WeightSum = Scale

\* C14 as amended: they sum to 1 up to the rounding of the three divisions,
\* here one unit in the last place.
C14_WeightsSumToOneRounded ==
    (ret.op = "calculate_wacc" /\ ret.weights # <<>>) => Abs(WeightSum - Scale) <= 1

\* weights of a 50/10/2 capital structure: none is representable and the
\* rounded weights do not add up to 1
C14_Witness ==
    /\ ret.op = "calculate_wacc"
    /\ ret.weights # <<>>
    /\ \A i \in 1..3 : ret.weights[i] > 0
    /\ WeightSum # Scale

\* --------------------------------------------------- the forecast, restated
\* the average margins of the snapshot, as the margin estimator returns them
Margins == calculate_historical_margins(Self).ret

\* revenue and NWC balance of forecast year i of rows; year 0 is the latest
\* historical year of the snapshot
RevenueOf(rows, i) == IF i = 0 THEN Fin(Newest(data.revenue, 0)) ELSE rows[i].Revenue
NwcOf(rows, i) == IF i = 0 THEN Fin(Newest(nwc(data), 0)) ELSE rows[i].NWC

\* C15: forecast_cash_flows returns one row per growth rate, in order, with
\* Year = i, Revenue_i = Revenue_{i-1} * (1 + g_i) from the latest historical
\* revenue, EBIT, D&A, CapEx and NWC = Revenue_i times the average margin,
\* Taxes = EBIT * tax rate, Change NWC_i = NWC_i - NWC_{i-1} with NWC_0 the
\* latest historical balance, UFCF = EBIT - Taxes + D&A - CapEx - Change NWC.
C15_ForecastRows ==
    ret.op = "forecast_cash_flows" =>
        LET rows == ret.val
            rates == assumptions.revenue_growth_rates
            tax == Newest(data.effective_tax_rate, 210)
        IN  /\ Len(rows) = Len(rates)
            /\ \A i \in 1..Len(rows) :
                 /\ rows[i].Year = i
                 /\ rows[i].Revenue = FMul(RevenueOf(rows, i - 1), Fin(Scale + rates[i]))
                 /\ rows[i].EBIT = FMul(rows[i].Revenue, Margins.ebit_m)
                 /\ rows[i].DA = FMul(rows[i].Revenue, Margins.da_m)
                 /\ rows[i].CapEx = FMul(rows[i].Revenue, Margins.capex_m)
                 /\ rows[i].NWC = FMul(rows[i].Revenue, Margins.nwc_m)
                 /\ rows[i].Taxes = FMul(rows[i].EBIT, Fin(tax))
                 /\ rows[i].ChangeNWC = FSub(rows[i].NWC, NwcOf(rows, i - 1))
                 /\ rows[i].UFCF =
                      FSub(FSub(FAdd(FSub(rows[i].EBIT, rows[i].Taxes), rows[i].DA),
                                rows[i].CapEx), rows[i].ChangeNWC)

\* a forecast of five years of numbers whose first change in NWC differs from
\* what an anchor of Revenue_0 times the NWC margin would give
C15_Witness ==
    /\ ret.op = "forecast_cash_flows"
    /\ Len(ret.val) = 5
    /\ FiniteFlows(ret.val)
    /\ ret.val[1].ChangeNWC # FSub(ret.val[1].NWC, FMul(RevenueOf(ret.val, 0), Margins.nwc_m))
    /\ ret.val[2].Revenue # ret.val[1].Revenue

\* ----------------------------------------------------- the bridge, restated
\* sum over i = k..n of flows[i] / (1 + w)^i
RECURSIVE PresentValues(_, _, _)
PresentValues(flows, w, k) ==
    IF k > Len(flows) THEN Zero
    ELSE FAdd(PresentValues(flows, w, k + 1), FDiv(flows[k], Fin(RPow(Scale + w, k))))

\* C16: for wacc > g and shares > 0 compute_intrinsic_value(wacc, g) is
\* ((PV1 + TV / (1 + wacc)^5) * (1 + wacc) - UFCF_1 - (debt - cash)) / shares
\* with PV1 the sum of UFCF_i / (1 + wacc)^i, TV = UFCF_last * (1 + g) /
\* (wacc - g), debt and cash the latest total debt and cash (for a forecast
\* of at least one year, which UFCF_1 and UFCF_last presuppose).
C16_BridgeFormula ==
    (ret.op = "compute_intrinsic_value" /\ ret.args[1] > ret.args[2] /\ Shares > 0
       /\ HasForecast) =>
        LET w == ret.args[1]
            g == ret.args[2]
            flows == [ i \in 1..Len(projections) |-> projections[i].UFCF ]
            PV1 == PresentValues(flows, w, 1)
            TV == FDiv(FMul(flows[Len(flows)], Fin(Scale + g)), Fin(w - g))
            EV == FAdd(PV1, FDiv(TV, Fin(RPow(Scale + w, 5))))
            net == LatestDebt - Newest(data.cash_and_equivalents, 0)
        IN  ret.val = FDiv(FSub(FSub(FMul(EV, Fin(Scale + w)), flows[1]), Fin(net)),
                           Fin(Shares))

\* a bridge call with wacc > g on a company with debt, cash and shares, that
\* returned a price
C16_Witness ==
    /\ ret.op = "compute_intrinsic_value"
    /\ ret.args[1] > ret.args[2]
    /\ Shares > 0
    /\ FiniteFlows(projections)
    /\ LatestDebt > 0
    /\ Newest(data.cash_and_equivalents, 0) > 0
    /\ IsFinite(ret.val)
    /\ ret.val # Zero

\* ------------------------------------------------------ an engine on its own
\* the engine constructed on input, alone in its process
Alone(input) ==
    [ data |-> input.data, assumptions |-> input.assumptions, wacc |-> 0,
      projections |-> <<>>, calculation_log |-> <<>>, stdout |-> <<>>, calls |-> NoCalls ]

\* one method call on an engine: the engine after it and what it returned
Call(self, call) ==
    The({ [ self |-> r.self, ret |-> r.ret ] :
          r \in { CASE call = <<"calculate_wacc">> -> calculate_wacc(self)
                    [] call = <<"forecast_cash_flows">> -> forecast_cash_flows(self)
                    [] call = <<"compute_intrinsic_value">> ->
                           compute_intrinsic_value(self, 100, 20)
                    [] call = <<"calculate_intrinsic_value">> -> calculate_intrinsic_value(self)
                    [] call = <<"generate_sensitivity_table">> ->
                           generate_sensitivity_table(self) } })

\* the calls of a history made one after the other on an engine that starts
\* as self; ret is what the last of them returned
RECURSIVE RunAlone(_, _, _)
RunAlone(self, last, history) ==
    IF history = <<>> THEN [ self |-> self, ret |-> last ]
    ELSE The({ RunAlone(r.self, r.ret, Tail(history)) : r \in { Call(self, Head(history)) } })

\* C17: whatever the interleaving of the calls on two engines, each engine's
\* last returned value, stored WACC, forecast rows and calculation trace are
\* what its own calls give on an engine that runs alone; so no trace holds an
\* entry of the other engine.
C17_InstancesAreIsolated ==
    \A e \in Engines :
        LET alone == RunAlone(Alone(fleet.input[e]), <<>>, fleet.history[e])
        IN  /\ fleet.returned[e] = alone.ret
            /\ fleet.engines[e].wacc = alone.self.wacc
            /\ fleet.engines[e].projections = alone.self.projections
            /\ TraceOf(fleet, e) = alone.self.calculation_log

\* calls on a, b and a again, in that order: a valuation on a, anything on b,
\* a table on a; both engines have a trace and the two differ
C17_Witness ==
    /\ fleet # <<>>
    /\ fleet.order = <<"a", "b", "a">>
    /\ fleet.history["a"] = << <<"calculate_intrinsic_value">>, <<"generate_sensitivity_table">> >>
    /\ Len(fleet.history["b"]) = 1
    /\ TraceOf(fleet, "b") # <<>>
    /\ TraceOf(fleet, "a") # TraceOf(fleet, "b")
    /\ Len(fleet.stdout) > Len(TraceOf(fleet, "a"))

\* ------------------------------------------------------------ frame effects
\* what a sequence gained from old to new, and whether it only gained
Gained(old, new) == SubSeq(new, Len(old) + 1, Len(new))
OnlyGained(old, new) == Len(old) <= Len(new) /\ SubSeq(new, 1, Len(old)) = old

Banner == " STARTING VALUATION"
WithoutBanner(messages) == SelectSeq(messages, LAMBDA m : m # Banner)

\* C18 as claimed: no engine operation changes the standard output of the
\* process.
C18_StdoutUntouched == [][ stdout' = stdout ]_vars

\* C18 as amended: an engine operation changes, besides self.wacc and
\* self.projections, the instance's calculation_log and the standard output
\* only, and both only by appending: every entry appended to the trace is
\* also printed, in the same order, and nothing else is printed but the
\* banner line of calculate_intrinsic_value.
C18_PrintsWhatItLogs ==
    [][ /\ OnlyGained(calculation_log, calculation_log')
        /\ OnlyGained(stdout, stdout')
        /\ WithoutBanner(Gained(stdout, stdout')) = Gained(calculation_log, calculation_log')
        /\ Len(Gained(stdout, stdout')) - Len(Gained(calculation_log, calculation_log'))
             = IF ret'.op = "calculate_intrinsic_value" THEN 1 ELSE 0
        /\ data' = data
        /\ assumptions' = assumptions ]_vars

\* a valuation that printed its trace and the banner
C18_Witness ==
    /\ ret.op = "calculate_intrinsic_value"
    /\ calls.client = 1
    /\ calculation_log # <<>>
    /\ Len(stdout) = Len(calculation_log) + 1
    /\ WithoutBanner(stdout) = calculation_log

\* C19: no engine operation modifies the FinancialData or the DCFAssumptions
\* the engine was constructed with.
C19_InputsAreReadOnly == [][ data' = data /\ assumptions' = assumptions ]_vars

\* two calls that each ran a forecast from the snapshot's revenue
C19_Witness ==
    /\ calls.client = 2
    /\ calls.forecast = 2
    /\ FiniteFlows(projections)
    /\ Last(projections).Revenue # Fin(Last(data.revenue))

\* ------------------------------------------------------- the loaded snapshot
PerYearSeries ==
    { "years", "revenue", "ebit", "ebitda", "net_income", "effective_tax_rate",
      "interest_expense", "current_assets", "current_liabilities", "cash_and_equivalents",
      "short_term_debt", "long_term_debt", "total_debt", "total_assets", "total_liabilities",
      "property_plant_equipment_net", "preferred_equity", "d_and_a", "capex",
      "preferred_dividends" }

Loaded == loader # <<>> /\ loader.pc = "returned"

\* C20: every FinancialData the loader returns, from Edgar or from yfinance,
\* has all its per-year series, years, effective_tax_rate and
\* preferred_dividends included, of length exactly 3.
C20_SeriesHaveThreeYears ==
    Loaded => \A f \in PerYearSeries : Len(loader.fd[f]) = 3

\* ------------------------------------------------------- the cached forecast
\* C21: compute_intrinsic_value, and so generate_sensitivity_table, leaves
\* calculation_log as it was, on every engine, one without a forecast
\* included.
C21_BridgeLogsNothing ==
    [][ ret'.op \in {"compute_intrinsic_value", "generate_sensitivity_table"}
        => calculation_log' = calculation_log ]_vars

\* C22 as claimed: the forecaster runs at most once per engine.
\* compute_intrinsic_value runs it only when no forecast is cached, and once
\* a forecast is cached no call of calculate_intrinsic_value,
\* compute_intrinsic_value or generate_sensitivity_table runs the forecaster
\* or the margin estimator again.
C22_ForecastRunsOnce ==
    [][ /\ (ret'.op = "compute_intrinsic_value" /\ calls'.forecast # calls.forecast)
            => ~HasForecast
        /\ (HasForecast /\ ret'.op \in { "calculate_intrinsic_value", "compute_intrinsic_value",
                                         "generate_sensitivity_table" })
            => (calls'.forecast = calls.forecast /\ calls'.margins = calls.margins) ]_vars

\* C23: calculate_intrinsic_value followed by generate_sensitivity_table on a
\* fresh engine with 5 growth rates runs the margin estimator once,
\* calculate_wacc once, the forecaster once and compute_intrinsic_value 25
\* times.
C23_OneValuationRun ==
    ( /\ ret.op = "generate_sensitivity_table"
      /\ calls.client = 2
      /\ calls.valuation = 1
      /\ Len(assumptions.revenue_growth_rates) = 5 )
    => /\ calls.margins = 1
       /\ calls.wacc = 1
       /\ calls.forecast = 1
       /\ calls.bridge = 25
       /\ calls.sensitivity = 1

\* a valuation run of a company with 5 growth rates that produced a table of
\* 5 rows from the forecast of the valuation
C23_Witness ==
    /\ ret.op = "generate_sensitivity_table"
    /\ calls.client = 2
    /\ calls.valuation = 1
    /\ Len(assumptions.revenue_growth_rates) = 5
    /\ Len(projections) = 5
    /\ Len(ret.val.matrix) = 5
    /\ calls.bridge = 25

\* the price of the bridge with the terminal value discounted over n years
PriceAtHorizon(w, g, n) ==
    LET flows == [ i \in 1..Len(projections) |-> projections[i].UFCF ]
        PV1 == PresentValues(flows, w, 1)
        TV == FDiv(FMul(flows[Len(flows)], Fin(Scale + g)), Fin(w - g))
        EV == FAdd(PV1, FDiv(TV, Fin(RPow(Scale + w, n))))
        net == LatestDebt - Newest(data.cash_and_equivalents, 0)
    IN  FDiv(FSub(FSub(FMul(EV, Fin(Scale + w)), flows[1]), Fin(net)), Fin(Shares))

\* C24: the terminal value is discounted by (1 + WACC)^N, N the number of
\* forecast rows, whatever N is, in compute_intrinsic_value and in
\* calculate_intrinsic_value alike (stated for wacc > g, a positive share
\* count and a forecast of at least one year, where a price is computed).
C24_TerminalExponentIsHorizon ==
    /\ (ret.op = "compute_intrinsic_value" /\ ret.args[1] > ret.args[2] /\ Shares > 0
          /\ HasForecast)
        => ret.val = PriceAtHorizon(ret.args[1], ret.args[2], Len(projections))
    /\ (ret.op = "calculate_intrinsic_value" /\ ret.wacc > TerminalGrowth /\ Shares > 0
          /\ HasForecast)
        => ret.val = Round2(PriceAtHorizon(ret.wacc, TerminalGrowth, Len(projections)))

\* C25: the trace is append-only: after every engine operation
\* calculation_log begins with the whole log from before the operation.
C25_TraceIsAppendOnly == [][ OnlyGained(calculation_log, calculation_log') ]_vars

\* a second calculate_intrinsic_value: the trace is the trace of the first
\* followed by that of the second
C25_Witness ==
    /\ ret.op = "calculate_intrinsic_value"
    /\ calls.client = 2
    /\ calls.valuation = 2
    /\ Len(calculation_log) > 2
    /\ LET h == Len(calculation_log) \div 2
       IN  SubSeq(calculation_log, 1, h) = SubSeq(calculation_log, h + 1, 2 * h)

\* C26: calculate_wacc evaluates no division by zero, so no call ends in
\* ZeroDivisionError and every call returns a number, whatever the snapshot:
\* zero or negative debt or preferred equity, a zero market cap or empty
\* series.
C26_NoDivisionByZero ==
    ret.op = "calculate_wacc" =>
        /\ ~Raises(ret.divisions)
        /\ \A i \in DOMAIN ret.divisions : ret.divisions[i][2] # 0
        /\ ret.val \in Int

\* calculate_wacc on a company without debt and without preferred equity
\* that computed its weights by division
C26_Witness ==
    /\ ret.op = "calculate_wacc"
    /\ LatestDebt = 0
    /\ LatestPreferred = 0
    /\ data.market_cap > 0
    /\ Len(ret.divisions) = 3

\* ------------------------------------------------------- the rate limiters
\* the limit of the endpoint the behaviour exercises
RateMax == IF rate.endpoint = "search" THEN RATE_LIMIT_MAX ELSE VALUATION_RATE_MAX

\* number of calls of ip that returned True at a time in (t - 60, t]
AcceptedIn(ip, t) == Len(SelectSeq(rate.accepted[ip], LAMBDA u : t - 60 < u /\ u <= t))

\* the timestamps the dict holds for ip, if it has the key
Recorded(table, ip) == IF ip \in DOMAIN table THEN <<table[ip]>> ELSE <<>>

\* C27: for every IP and every instant t at most 30 calls of
\* check_rate_limit, and at most 10 of check_valuation_rate_limit, that
\* returned True were made in (t - 60, t]; and a call for one IP leaves what
\* the dict holds for every other IP as it was.
C27_RateLimited ==
    /\ [](\A ip \in IPs, t \in 0..MaxClock : AcceptedIn(ip, t) <= RateMax)
    /\ [][ \A ip \in IPs : ip # rate'.last[1]
             => Recorded(rate'.table, ip) = Recorded(rate.table, ip) ]_vars

\* the search limiter rejecting a client that has 30 accepted requests in
\* the window, made at two different times, while the other client has
\* timestamps recorded
C27_Witness ==
    /\ rate # <<>>
    /\ rate.endpoint = "search"
    /\ rate.last = <<Client, FALSE>>
    /\ AcceptedIn(Client, rate.now) = 30
    /\ rate.accepted[Client][1] # rate.accepted[Client][30]
    /\ Recorded(rate.table, Other) \notin { <<>>, << <<>> >> }

\* C28: a call that returns False adds no timestamp, and a call made 60
\* seconds or more after the IP's most recent accepted call (or with no
\* accepted call before) returns True.
C28_LockOutEnds ==
    [][ LET ip == rate'.last[1]
            accepted == rate.accepted[ip]
        IN  /\ ~rate'.last[2]
                => /\ Len(rate'.table[ip]) <= Len(WithKey(rate.table, ip)[ip])
                   /\ \A i \in DOMAIN rate'.table[ip] :
                        \E j \in DOMAIN rate.table[ip] : rate.table[ip][j] = rate'.table[ip][i]
            /\ (accepted = <<>> \/ rate'.now - accepted[Len(accepted)] >= 60)
                => rate'.last[2] ]_vars

\* a client that used up its limit, was locked out and is accepted again 60
\* seconds after its last accepted request
C28_Witness ==
    /\ rate # <<>>
    /\ rate.last = <<Client, TRUE>>
    /\ Len(rate.accepted[Client]) = RateMax + 1
    /\ rate.accepted[Client][RateMax] + 60 <= rate.now
    /\ rate.table[Client] = <<rate.now>>

\* --------------------------------------------------------- the search cache
\* C29: search_tickers(query, limit) returns what a fresh upstream search for
\* the query with that limit returns, whether it answers from the cache or
\* from upstream and whatever calls came before, and never more than limit
\* entries.
C29_CacheIsTransparent ==
    (search # <<>> /\ search.last # <<>> /\ search.last.from \in {"cache", "upstream"})
    => /\ search.last.ret = Take(Search(search.last.query, search.last.limit),
                                 search.last.limit)
       /\ Len(search.last.ret) <= search.last.limit

\* ------------------------------------------------------ the captured output
AllFinished == \A r \in Requests : web.pc[r] = "done"

\* C30: once every /calculate request has finished, with a response or an
\* error, sys.stdout is the stream installed before the first request
\* started, and the calculation_logs a request returned hold only lines its
\* own model run printed.
C30_StdoutRestored ==
    (web # <<>> /\ AllFinished)
    => /\ web.sys_stdout = Console
       /\ \A r \in Requests :
            web.outcome[r] = "200" => \A i \in DOMAIN web.logs[r] : web.logs[r][i] = r

====
